---- MODULE Spec2Model ----
(***************************************************************************)
(* A model of fanza_vr_auto_post.py: the description resolver              *)
(* (fetch_description_from_detail_page and its helpers), the candidate-URL *)
(* generator, the text sanitizer and the posting loop of main.             *)
(*                                                                         *)
(* Text is a sequence of one-character strings.  A character outside ASCII *)
(* is written as a token "#name" (one token = one character of the         *)
(* source), so len() of the source is Len() here and substring tests,      *)
(* str.replace and str.strip are computed character by character.          *)
(***************************************************************************)
EXTENDS Integers, Sequences, FiniteSets, TLC

VARIABLES
    cleanIn,      \* _clean_text: the string handed to the first call
    cleanHist,    \* _clean_text: the results of the successive calls
    FORCE_DETAIL_DOMAIN,  \* the environment's domain preference ("" when unset)
    urlItem,      \* _build_candidate_urls: the item
    urlOrig,      \* _build_candidate_urls: original_url
    urlCalls,     \* _build_candidate_urls: the lists the successive calls returned
    SCRAPE_DESC,  \* the environment's scraping switch
    BeautifulSoup,\* TRUE when bs4 was imported (the name is not None)
    resItem,      \* fetch_description_from_detail_page: item (its place in ItemPool)
    resUrl,       \* fetch_description_from_detail_page: url
    pc,           \* where the call is: "start", "loop", "done"
    candList,     \* the list the for loop iterates over
    tried,        \* the loop's i: the number of candidates tried so far
    fetched,      \* the candidate indices requests.get was called for, in order
    cur,          \* what the latest iteration did
    last_err,     \* last_err ("none" for None)
    result,       \* the returned description (None before the return)
    tier,         \* the src of the returned description
    raised,       \* TRUE when the call ended by raising
    POST_LIMIT,   \* the environment's post limit
    recent,       \* main: the items of the last RECENT_DAYS days (places in MainItems)
    backlog,      \* main: the older items
    published,    \* the titles published on the site before the run
    searchFresh,  \* TRUE when GetPosts returns the posts created earlier in the run
    mainPc,       \* where main is: "recent", "backlog", "end"
    loopAt,       \* the number of items of the current list already attempted
    posted,       \* main: posted
    created,      \* the titles of the posts NewPost created in this run, in order
    wpCall,       \* what the latest call of create_wp_post did
    attempts,     \* the calls of create_wp_post so far: the list, the place, the outcome
    mainFailed,   \* TRUE when main's except clause caught an exception
    MAX_PAGES,    \* the environment's page limit
    HITS,         \* the environment's page size
    nowJst,       \* now_jst() during the call
    fetchPc,      \* where fetch_all_vr_released_sorted is: "page", "retry", "filter", "done"
    fetchPage,    \* the loop's page
    apiLog,       \* the calls of dmm_request so far: page, offset, keyword, outcome
    all_items,    \* all_items (places in ApiItems)
    released,     \* the returned list (None before the return)
    RECENT_DAYS,  \* the environment's number of days an item counts as recent
    splitItems,   \* split_recent_and_backlog: items (places in DatedItems)
    splitNow,     \* now_jst() during the call
    splitPc,      \* where split_recent_and_backlog is: "loop", "done"
    splitAt,      \* the number of items the for loop has handled
    splitRecent,  \* split_recent_and_backlog: recent
    splitBacklog, \* split_recent_and_backlog: backlog
    splitBranch   \* the branch each handled item took: "except", "recent", "backlog"

cleanVars == <<cleanIn, cleanHist>>
urlVars == <<urlItem, urlOrig, urlCalls>>
resVars == <<SCRAPE_DESC, BeautifulSoup, resItem, resUrl, pc, candList, tried, fetched, cur,
             last_err, result, tier, raised>>
mainVars == <<POST_LIMIT, recent, backlog, published, searchFresh, mainPc, loopAt, posted,
              created, wpCall, attempts, mainFailed>>
fetchVars == <<MAX_PAGES, HITS, nowJst, fetchPc, fetchPage, apiLog, all_items, released>>
splitVars == <<RECENT_DAYS, splitItems, splitNow, splitPc, splitAt, splitRecent, splitBacklog,
               splitBranch>>
vars == <<FORCE_DETAIL_DOMAIN, cleanVars, urlVars, resVars, mainVars, fetchVars, splitVars>>

\* The values the variables of one specification have under the others.
IdleClean ==
    /\ cleanIn = <<>>
    /\ cleanHist = <<>>

IdleUrls ==
    /\ urlItem = [content_id |-> "", product_id |-> ""]
    /\ urlOrig = [scheme |-> "https", sub |-> "www", rest |-> "dmm.co.jp",
                  path |-> <<>>, query |-> <<>>]
    /\ urlCalls = <<>>

IdleResolve ==
    /\ SCRAPE_DESC = TRUE
    /\ BeautifulSoup = TRUE
    /\ resItem = 0
    /\ resUrl = <<>>
    /\ pc = "idle"
    /\ candList = <<>>
    /\ tried = 0
    /\ fetched = <<>>
    /\ cur = <<>>
    /\ last_err = "none"
    /\ result = <<>>
    /\ tier = "none"
    /\ raised = FALSE

IdleMain ==
    /\ POST_LIMIT = 0
    /\ recent = <<>>
    /\ backlog = <<>>
    /\ published = {}
    /\ searchFresh = TRUE
    /\ mainPc = "idle"
    /\ loopAt = 0
    /\ posted = 0
    /\ created = <<>>
    /\ wpCall = <<>>
    /\ attempts = <<>>
    /\ mainFailed = FALSE

IdleFetch ==
    /\ MAX_PAGES = 0
    /\ HITS = 0
    /\ nowJst = <<>>
    /\ fetchPc = "idle"
    /\ fetchPage = 0
    /\ apiLog = <<>>
    /\ all_items = <<>>
    /\ released = <<>>

IdleSplit ==
    /\ RECENT_DAYS = 0
    /\ splitItems = <<>>
    /\ splitNow = <<>>
    /\ splitPc = "idle"
    /\ splitAt = 0
    /\ splitRecent = <<>>
    /\ splitBacklog = <<>>
    /\ splitBranch = <<>>

----------------------------------------------------------------------------
(* Text primitives: Python's `in`, str.replace, str.strip, re.sub.          *)

Min(S) ==
    CHOOSE x \in S : \A y \in S : x <= y

Max(S) ==
    CHOOSE x \in S : \A y \in S : x >= y

\* s[i:i+len(p)] == p
MatchAt(s, p, i) ==
    /\ i >= 1
    /\ i + Len(p) - 1 <= Len(s)
    /\ \A j \in 1..Len(p) : s[i + j - 1] = p[j]

\* p in s
Contains(s, p) ==
    \E i \in 1..(Len(s) - Len(p) + 1) : MatchAt(s, p, i)

\* s.count(c) for a one-character c
CountChar(s, c) ==
    Cardinality({i \in 1..Len(s) : s[i] = c})

RECURSIVE ReplaceFrom(_, _, _, _)
\* s[k:].replace(p, r): the occurrences of p are taken left to right and do
\* not overlap; what a replacement produces is not scanned again.
ReplaceFrom(s, p, r, k) ==
    LET M == {i \in k..(Len(s) - Len(p) + 1) : MatchAt(s, p, i)}
        m == Min(M)
    IN  IF M = {}
        THEN SubSeq(s, k, Len(s))
        ELSE SubSeq(s, k, m - 1) \o r \o ReplaceFrom(s, p, r, m + Len(p))

Replace(s, p, r) ==
    ReplaceFrom(s, p, r, 1)

\* the characters \s matches and str.strip() strips
Whitespace ==
    {" ", "\n"}

IsSpace(c) ==
    c \in Whitespace

\* s.strip(): from the first to the last character that is no whitespace
Strip(s) ==
    IF \A n \in 1..Len(s) : IsSpace(s[n]) THEN <<>>
    ELSE LET a == CHOOSE n \in 1..Len(s) :
                      ~IsSpace(s[n]) /\ \A j \in 1..(n - 1) : IsSpace(s[j])
             b == CHOOSE n \in 1..Len(s) :
                      ~IsSpace(s[n]) /\ \A j \in (n + 1)..Len(s) : IsSpace(s[j])
         IN  SubSeq(s, a, b)

RECURSIVE CollapseFrom(_, _)
\* re.sub(r"\s{2,}", " ", s[k:]): every maximal run of two or more whitespace
\* characters becomes one space; a single whitespace character is kept as is.
CollapseFrom(s, k) ==
    LET M == {i \in k..(Len(s) - 1) : IsSpace(s[i]) /\ IsSpace(s[i + 1])}
    IN  IF M = {}
        THEN SubSeq(s, k, Len(s))
        ELSE LET i == Min(M)
                 e == Min({j \in (i + 1)..Len(s) : j = Len(s) \/ ~IsSpace(s[j + 1])})
             IN  SubSeq(s, k, i - 1) \o <<" ">> \o CollapseFrom(s, e + 1)

CollapseSpaces(s) ==
    CollapseFrom(s, 1)

\* The character references html.unescape decodes that the modelled pages
\* use: <<reference, replacement>>.
Entities ==
    { << <<"&", "a", "m", "p", ";">>, <<"&">> >>,
      << <<"&", "l", "t", ";">>, <<"<">> >> }

RECURSIVE UnescapeFrom(_, _)
\* html.unescape(s[k:]): one left-to-right pass; the decoded text is not
\* decoded again ("&amp;amp;" becomes "&amp;").
UnescapeFrom(s, k) ==
    LET M == {i \in k..Len(s) : \E e \in Entities : MatchAt(s, e[1], i)}
    IN  IF M = {}
        THEN SubSeq(s, k, Len(s))
        ELSE LET i == Min(M)
                 e == CHOOSE x \in Entities : MatchAt(s, x[1], i)
             IN  SubSeq(s, k, i - 1) \o e[2] \o UnescapeFrom(s, i + Len(e[1]))

Unescape(s) ==
    UnescapeFrom(s, 1)

----------------------------------------------------------------------------
(* The phrase lists of the source.                                          *)

P_AdultSiteEn ==
    <<"F", "r", "o", "m", " ", "h", "e", "r", "e", " ", "o", "n", ",", " ", "i", "t",
      " ", "w", "i", "l", "l", " ", "b", "e", " ", "a", "n", " ", "a", "d", "u", "l",
      "t", " ", "s", "i", "t", "e">>

P_18saimiman ==
    <<"1", "8", "#sai", "#mi", "#man">>

P_miseinen ==
    <<"#mi", "#sei", "#nen">>

P_18saiBmiman ==
    <<"1", "8", "#saiB", "#mi", "#man">>

P_AdultGoods ==
    <<"#A", "#DA", "#RU", "#TO", "#akinai", "#hin", "#wo", "#tori", "#riB", "#atsuka",
      "#uu">>

P_seijinmuke ==
    <<"#sei", "#jin", "#muke", "#ke">>

P_AdultSite ==
    <<"#A", "#DA", "#RU", "#TO", "#SA", "#I", "#TO">>

P_Over18 ==
    <<"#go", "#ri", "#you", "#ha", "1", "8", "#sai", "#ijo", "#ue">>

P_nenreininshou ==
    <<"#nen", "#rei", "#nin", "#shou">>

P_mushuusei ==
    <<"#mu", "#shuu", "#tadashi">>

P_mimanAccess ==
    <<"#mi", "#man", "#no", "#kata", "#no", "#A", "#KU", "#SE", "#SU">>

P_UnderAgeEn ==
    <<"u", "n", "d", "e", "r", " ", "t", "h", "e", " ", "a", "g", "e", " ", "o", "f",
      " ", "1", "8">>

P_AgeVerifEn ==
    <<"a", "g", "e", " ", "v", "e", "r", "i", "f", "i", "c", "a", "t", "i", "o", "n">>

P_riyoukiyaku ==
    <<"#ri", "#you", "#ki", "#yaku">>

P_Cookie ==
    <<"C", "o", "o", "k", "i", "e">>

P_kaiintouroku ==
    <<"#kai", "#in", "#tou", "#roku">>

P_Privacy ==
    <<"#PU", "#RA", "#I", "#BA", "#SHI", "#BAR">>

NG_DESCRIPTIONS ==
    <<P_AdultSiteEn, P_18saimiman, P_miseinen, P_18saiBmiman,
      P_AdultGoods, P_seijinmuke, P_AdultSite, P_Over18>>

\* the list _clean_text removes, in the order it removes it
CleanBoilerplate ==
    <<P_18saimiman, P_seijinmuke, P_AdultSite, P_Over18, P_nenreininshou, P_mushuusei>>

Range(f) ==
    {f[i] : i \in DOMAIN f}

----------------------------------------------------------------------------
(* _clean_text                                                              *)

RECURSIVE RemoveAll(_, _, _)
\* for b in list[k:]: s = s.replace(b, "")
RemoveAll(s, list, k) ==
    IF k > Len(list) THEN s ELSE RemoveAll(Replace(s, list[k], <<>>), list, k + 1)

_clean_text(s) ==
    Strip(RemoveAll(CollapseSpaces(Strip(Unescape(s))), CleanBoilerplate, 1))

----------------------------------------------------------------------------
(* Validation and the catalog/synthesized fallback.                         *)

MinValidLen == 30
CatalogMinLen == 20
CatalogMaxLen == 800
BaseMinLen == 10

\* an optional text: None is <<>> and a string s is <<s>>
None ==
    <<>>

Some(s) ==
    <<s>>

is_valid_description(desc) ==
    /\ desc # <<>>
    /\ Len(Strip(desc)) >= MinValidLen
    /\ \A k \in 1..Len(NG_DESCRIPTIONS) : ~Contains(desc, NG_DESCRIPTIONS[k])

T_Genre ==
    <<"#MARU", "#JI", "#ya", "#N", "#RU", "#COLON">>

T_Cast ==
    <<"#MARU", "#de", "#en", "#COLON">>

T_Label ==
    <<"#MARU", "#RE", "#BAR", "#BE", "#RU", "#COLON">>

T_Volume ==
    <<"#MARU", "#shuuB", "#roku", "#toki", "#aida", "#COLON">>

T_Generic ==
    <<"F", "A", "N", "Z", "A", "#LPAR", "D", "M", "M", "#RPAR", "V", "R", "#dou",
      "#ga", "#no", "#ji", "#dou", "#nage", "#kou", "#deB", "#su", "#MARU">>

RECURSIVE Join(_, _)
\* sep.join(names)
Join(names, sep) ==
    IF names = <<>> THEN <<>>
    ELSE IF Len(names) = 1 THEN names[1]
    ELSE names[1] \o sep \o Join(Tail(names), sep)

\* (item.get(key) or ii.get(key) or "").strip()
CatalogField(item, key) ==
    Strip(IF item[key] # <<>> THEN item[key] ELSE item.iteminfo[key])

\* the first of description, comment, story that is accepted, or None
CatalogDescription(item) ==
    LET keys == <<"description", "comment", "story">>
        good(k) == LET val == CatalogField(item, keys[k])
                   IN  /\ CatalogMinLen <= Len(val)
                       /\ Len(val) <= CatalogMaxLen
                       /\ is_valid_description(val)
        hits == {k \in 1..3 : good(k)}
    IN  IF hits = {} THEN None ELSE Some(CatalogField(item, keys[Min(hits)]))

\* the sentence built from title, genres, cast, label and volume
SynthesizedDescription(item) ==
    LET base == item.title \o T_Genre \o Join(item.iteminfo.genre, <<"#TEN">>)
                           \o T_Cast \o Join(item.iteminfo.actress, <<"#TEN">>)
                           \o T_Label \o Join(item.iteminfo.label, <<"#TEN">>)
                           \o T_Volume \o item.volume \o <<"#MARU">>
    IN  IF Len(base) > BaseMinLen THEN base ELSE T_Generic

\* fallback_description: <<text, tier>>
fallback_description(item) ==
    IF CatalogDescription(item) # None
    THEN [text |-> CatalogDescription(item)[1], tier |-> "catalog"]
    ELSE [text |-> SynthesizedDescription(item), tier |-> "synthesized"]

----------------------------------------------------------------------------
(* A fetched page, as BeautifulSoup and the regular expressions of          *)
(* pick_from_html see it:                                                   *)
(*   chrome    the text of the page outside the parts below                 *)
(*   blocks    get_text of the nodes the structural selectors match         *)
(*   headings  the joined sibling text after each keyword heading           *)
(*   paras     get_text of every <p>                                        *)
(*   og, meta  the content the og:description / description regex captures  *)
(*             (None when the regex does not match)                         *)
(*   jsonld    the application/ld+json blocks in document order; a block is *)
(*             [parses, objs], an object [isDict, desc, sub] with desc the  *)
(*             "description" and sub the "subjectOf"."description" (None    *)
(*             when absent)                                                 *)
(* html_txt holds every one of these texts.                                 *)

MainMinLen == 60
MainMaxLen == 1200
MetaMinLen == 30
MetaMaxLen == 700
ParaMinLen == 60
MarkWeight == 20

age_gate_markers ==
    <<P_18saimiman, P_mimanAccess, P_seijinmuke, P_AdultSite, P_UnderAgeEn, P_AgeVerifEn>>

SiteBoilerplate ==
    <<P_riyoukiyaku, P_Cookie, P_kaiintouroku, P_Privacy>>

RECURSIVE JsonLdTexts(_)
\* the texts of the JSON-LD blocks, as they stand in html_txt
JsonLdTexts(blocks) ==
    IF blocks = <<>> THEN <<>>
    ELSE LET objTexts(o) == o.desc \o o.sub
             RECURSIVE Objs(_)
             Objs(os) == IF os = <<>> THEN <<>> ELSE objTexts(Head(os)) \o Objs(Tail(os))
         IN  Objs(Head(blocks).objs) \o JsonLdTexts(Tail(blocks))

\* the pieces of text html_txt is made of
PageTexts(page) ==
    <<page.chrome>> \o page.blocks \o page.headings \o page.paras
        \o page.og \o page.meta \o JsonLdTexts(page.jsonld)

\* any(k in html_txt for k in age_gate_markers)
AgeGated(page) ==
    \E k \in 1..Len(age_gate_markers) :
        \E n \in 1..Len(PageTexts(page)) : Contains(PageTexts(page)[n], age_gate_markers[k])

\* not html_txt
HtmlEmpty(page) ==
    \A n \in 1..Len(PageTexts(page)) : PageTexts(page)[n] = <<>>

\* ok(s) of extract_main_description
MainOk(s) ==
    LET st == Strip(s)
    IN  /\ MainMinLen <= Len(st)
        /\ Len(st) <= MainMaxLen
        /\ \A k \in 1..Len(SiteBoilerplate) : ~Contains(st, SiteBoilerplate[k])

\* len(c2) + 20 * (c2.count("。") + c2.count("！") + c2.count("？"))
Score(c2) ==
    Len(c2) + MarkWeight * (CountChar(c2, "#MARU") + CountChar(c2, "#EXCL") + CountChar(c2, "#QUES"))

\* the candidates the three strategies pool, in the order they are appended
MainCandidates(page) ==
    SelectSeq(page.blocks, LAMBDA x : x # <<>>)
        \o page.headings
        \o SelectSeq(page.paras, LAMBDA x : x # <<>> /\ Len(x) >= ParaMinLen)

RECURSIVE BestFrom(_, _, _, _)
RECURSIVE BestFrom_LastWins(_, _, _, _)
\* a faulty variant of BestFrom: a candidate that equals the best score replaces it
BestFrom_LastWins(cands, k, best, best_score) ==
    IF k > Len(cands) THEN best
    ELSE LET c2 == _clean_text(cands[k])
         IN  IF ~MainOk(c2) THEN BestFrom_LastWins(cands, k + 1, best, best_score)
             ELSE IF Score(c2) >= best_score
                  THEN BestFrom_LastWins(cands, k + 1, Some(c2), Score(c2))
             ELSE BestFrom_LastWins(cands, k + 1, best, best_score)

\* the loop over candidates[k:] with the best so far and its score
BestFrom(cands, k, best, best_score) ==
    IF k > Len(cands) THEN best
    ELSE LET c2 == _clean_text(cands[k])
         IN  IF ~MainOk(c2) THEN BestFrom(cands, k + 1, best, best_score)
             ELSE IF Score(c2) > best_score THEN BestFrom(cands, k + 1, Some(c2), Score(c2))
             ELSE BestFrom(cands, k + 1, best, best_score)

extract_main_description(page, scrape, bs4) ==
    IF ~scrape \/ ~bs4 \/ HtmlEmpty(page) THEN None
    ELSE BestFrom(MainCandidates(page), 1, None, -1)

\* a faulty variant of MetaOk: the cleaned text is not validated against NG_DESCRIPTIONS
MetaOk_LengthOnly(d) ==
    /\ MetaMinLen <= Len(d)
    /\ Len(d) <= MetaMaxLen

\* 30 <= len(d) <= 700 and is_valid_description(d)
MetaOk(d) ==
    /\ MetaMinLen <= Len(d)
    /\ Len(d) <= MetaMaxLen
    /\ is_valid_description(d)

RECURSIVE JsonLdCandidates(_)
\* the descriptions step 4 examines, in the order it examines them, each
\* cleaned and with the src it would be returned under; a block that does not
\* parse and an object that is no dict contribute nothing
JsonLdCandidates(blocks) ==
    IF blocks = <<>> THEN <<>>
    ELSE LET one(o) == IF ~o.isDict THEN <<>>
                       ELSE (IF o.desc = None THEN <<>>
                             ELSE <<[d |-> _clean_text(o.desc[1]), src |-> "jsonld"]>>)
                            \o (IF o.sub = None THEN <<>>
                                ELSE <<[d |-> _clean_text(o.sub[1]), src |-> "jsonld.subject"]>>)
             RECURSIVE Objs(_)
             Objs(os) == IF os = <<>> THEN <<>> ELSE one(Head(os)) \o Objs(Tail(os))
         IN  (IF Head(blocks).parses THEN Objs(Head(blocks).objs) ELSE <<>>)
             \o JsonLdCandidates(Tail(blocks))

\* m.group(1) of the two meta patterns, content=["']([^"']+)["']: the value
\* of the content attribute (None when the tag is absent) up to its first
\* apostrophe; no match when nothing stands before it
CapturedContent(attr) ==
    IF attr = None THEN None
    ELSE LET quotes == {n \in 1..Len(attr[1]) : attr[1][n] = "'"}
             stop == IF quotes = {} THEN Len(attr[1]) + 1 ELSE Min(quotes)
         IN  IF stop = 1 THEN None ELSE Some(SubSeq(attr[1], 1, stop - 1))

\* what one extraction tier yields for the page: None, or the accepted text
\* and the src it is returned under
TierYield(page, stage, scrape, bs4) ==
    IF stage = "main"
    THEN LET main_desc == extract_main_description(page, scrape, bs4)
         IN  IF main_desc # None /\ is_valid_description(main_desc[1])
             THEN Some([d |-> main_desc[1], src |-> "main"]) ELSE None
    ELSE IF stage = "og"
    THEN LET m == CapturedContent(page.og)
         IN  IF m # None /\ MetaOk(_clean_text(m[1]))
             THEN Some([d |-> _clean_text(m[1]), src |-> "og"]) ELSE None
    ELSE IF stage = "meta"
    THEN LET m == CapturedContent(page.meta)
         IN  IF m # None /\ MetaOk(_clean_text(m[1]))
             THEN Some([d |-> _clean_text(m[1]), src |-> "meta"]) ELSE None
    ELSE LET jl == JsonLdCandidates(page.jsonld)
             hits == {n \in 1..Len(jl) : MetaOk(jl[n].d)}
         IN  IF hits = {} THEN None ELSE Some(jl[Min(hits)])

\* a faulty variant of PickOrder: og:description is tried before the main body
PickOrder_OgFirst ==
    <<"og", "main", "meta", "jsonld">>

\* the order of the four extraction steps of pick_from_html
PickOrder ==
    <<"main", "og", "meta", "jsonld">>

\* a faulty variant of ShortCircuit: the age markers are not looked for
ShortCircuit_Never(page) ==
    FALSE

\* lines 280-281: pick_from_html returns at once on an age marker
ShortCircuit(page) ==
    AgeGated(page)

\* pick_from_html: desc (None or the text), src, and the stages that ran
pick_from_html(page, scrape, bs4) ==
    IF ShortCircuit(page)
    THEN [desc |-> None, src |-> "age-gate", stages |-> <<"age-gate">>]
    ELSE LET hits == {k \in 1..Len(PickOrder) : TierYield(page, PickOrder[k], scrape, bs4) # None}
         IN  IF hits = {}
             THEN [desc |-> None, src |-> "none", stages |-> <<"age-gate">> \o PickOrder]
             ELSE LET y == TierYield(page, PickOrder[Min(hits)], scrape, bs4)[1]
                  IN  [desc |-> Some(y.d), src |-> y.src,
                       stages |-> <<"age-gate">> \o SubSeq(PickOrder, 1, Min(hits))]

----------------------------------------------------------------------------
(* _build_candidate_urls.  A URL is what urlparse makes of it: scheme,      *)
(* netloc (first label and the rest), path (the segments between slashes;   *)
(* every modelled path starts and ends with a slash) and query (the         *)
(* key=value pairs in order).                                               *)

Url(scheme, sub, path, query) ==
    [scheme |-> scheme, sub |-> sub, rest |-> "dmm.co.jp", path |-> path, query |-> query]

\* k.lower() for the query keys of the modelled URLs
Lower(k) ==
    CASE k = "AF_ID" -> "af_id"
      [] k = "Uid" -> "uid"
      [] OTHER -> k

AffiliateKeys ==
    {"affiliate_id", "affi_id", "uid", "af_id"}

\* dict(parse_qsl(query)): pairs with a blank value are dropped, a repeated
\* key keeps the place of its first pair and the value of its last
ParseQueryDict(q) ==
    LET nb == SelectSeq(q, LAMBDA kv : kv[2] # "")
        first(i) == \A j \in 1..(i - 1) : nb[j][1] # nb[i][1]
        lastVal(k) == nb[Max({j \in 1..Len(nb) : nb[j][1] = k})][2]
        idx == {i \in 1..Len(nb) : first(i)}
        RECURSIVE Build(_)
        Build(i) == IF i > Len(nb) THEN <<>>
                    ELSE (IF i \in idx THEN << <<nb[i][1], lastVal(nb[i][1])>> >> ELSE <<>>)
                         \o Build(i + 1)
    IN  Build(1)

\* step 1: the original URL without its affiliate parameters
StripAffiliate(u) ==
    [u EXCEPT !.query = SelectSeq(ParseQueryDict(u.query),
                                  LAMBDA kv : Lower(kv[1]) \notin AffiliateKeys)]

\* (item.get("content_id") or item.get("product_id") or "").strip()
CidOf(item) ==
    IF item.content_id # "" THEN item.content_id ELSE item.product_id

\* the path segment "cid=<cid>"
CidSegment(cid) ==
    CASE cid = "c1" -> "cid=c1"
      [] cid = "p1" -> "cid=p1"
      [] OTHER -> "cid="

\* step 2: the three www detail pages guessed from the content id
GuessedUrls(cid) ==
    IF cid = "" THEN <<>>
    ELSE << Url("https", "www", <<"digital", "videoa", "-", "detail", "=", CidSegment(cid)>>, <<>>),
            Url("https", "www", <<"digital", "vrvideo", "-", "detail", "=", CidSegment(cid)>>, <<>>),
            Url("https", "www", <<"vrvideo", "-", "detail", "=", CidSegment(cid)>>, <<>>) >>

\* path.replace("/digital/", "/av/"): two neighbouring "digital" segments share
\* a slash, so the second of them is not replaced
ReplaceDigital(path) ==
    LET RECURSIVE Hit(_)
        Hit(i) == /\ path[i] = "digital"
                  /\ ~(i > 1 /\ Hit(i - 1))
    IN  [i \in 1..Len(path) |-> IF Hit(i) THEN "av" ELSE path[i]]

\* step 3: the counterpart of u on the other domain, or none
SwapDomain(u) ==
    IF u.sub = "video" THEN << [u EXCEPT !.sub = "www"] >>
    ELSE IF u.sub = "www" THEN << [u EXCEPT !.sub = "video", !.path = ReplaceDigital(u.path)] >>
    ELSE <<>>

RECURSIVE SwapAll(_)
SwapAll(urls) ==
    IF urls = <<>> THEN <<>> ELSE SwapDomain(Head(urls)) \o SwapAll(Tail(urls))

\* a faulty variant of SortByPreference: the preferred URLs are put last
SortByPreference_Last(urls, force) ==
    IF force \in {"video", "www"}
    THEN SelectSeq(urls, LAMBDA u : u.sub # force) \o SelectSeq(urls, LAMBDA u : u.sub = force)
    ELSE urls

\* step 4: urls.sort(key = 0 if netloc starts with the preferred domain else 1);
\* list.sort is stable
SortByPreference(urls, force) ==
    IF force \in {"video", "www"}
    THEN SelectSeq(urls, LAMBDA u : u.sub = force) \o SelectSeq(urls, LAMBDA u : u.sub # force)
    ELSE urls

\* steps 1 to 4: the list before the duplicates are removed
CandidatesBeforeDedup(item, original_url, force) ==
    LET base == <<StripAffiliate(original_url)>> \o GuessedUrls(CidOf(item))
    IN  SortByPreference(base \o SwapAll(base), force)

\* a faulty variant of Dedup: a repeated URL is kept where it occurs last
DedupKeepLast(urls) ==
    LET keep == {i \in 1..Len(urls) : \A j \in (i + 1)..Len(urls) : urls[j] # urls[i]}
        RECURSIVE Build(_)
        Build(i) == IF i > Len(urls) THEN <<>>
                    ELSE (IF i \in keep THEN <<urls[i]>> ELSE <<>>) \o Build(i + 1)
    IN  Build(1)

RECURSIVE DedupFrom(_, _, _)
\* for u in urls[k:]: if u not in seen: seen.add(u); out.append(u)
DedupFrom(urls, k, seen) ==
    IF k > Len(urls) THEN <<>>
    ELSE IF urls[k] \in seen THEN DedupFrom(urls, k + 1, seen)
    ELSE <<urls[k]>> \o DedupFrom(urls, k + 1, seen \cup {urls[k]})

Dedup(urls) ==
    DedupFrom(urls, 1, {})

_build_candidate_urls(item, original_url, force) ==
    Dedup(CandidatesBeforeDedup(item, original_url, force))

----------------------------------------------------------------------------
(* Specification SpecUrls: _build_candidate_urls called repeatedly for one  *)
(* item, one canonical URL and one FORCE_DETAIL_DOMAIN.                     *)

MaxUrlCalls == 2

UrlPaths ==
    { <<"digital", "videoa", "-", "detail", "=", "cid=c1">>,
      <<"av", "videoa", "-", "detail", "=", "cid=c1">>,
      <<"vrvideo", "-", "detail", "=", "cid=c1">>,
      <<"av", "content">>,
      <<"digital", "digital", "x">> }

UrlQueries ==
    { <<>>,
      << <<"affiliate_id", "a">> >>,
      << <<"id", "c1">>, <<"AF_ID", "a">> >>,
      << <<"id", "c1">>, <<"ref", "">>, <<"id", "c2">> >> }

OriginalUrls ==
    {Url(s, d, p, q) : s \in {"https"}, d \in {"www", "video", "al"}, p \in UrlPaths, q \in UrlQueries}

UrlItems ==
    [content_id : {"", "c1"}, product_id : {"", "p1"}]

ForceDomains ==
    {"", "www", "video", "WWW"}

InitUrls ==
    /\ FORCE_DETAIL_DOMAIN \in ForceDomains
    /\ urlItem \in UrlItems
    /\ urlOrig \in OriginalUrls
    /\ urlCalls = <<>>
    /\ IdleClean
    /\ IdleResolve
    /\ IdleMain
    /\ IdleFetch
    /\ IdleSplit

BuildCall ==
    /\ Len(urlCalls) < MaxUrlCalls
    /\ urlCalls' = Append(urlCalls, _build_candidate_urls(urlItem, urlOrig, FORCE_DETAIL_DOMAIN))
    /\ UNCHANGED <<FORCE_DETAIL_DOMAIN, urlItem, urlOrig, cleanVars, resVars, mainVars, fetchVars, splitVars>>

NextUrls ==
    BuildCall

SpecUrls ==
    InitUrls /\ [][NextUrls]_vars

\* the index of the first occurrence of u in urls
FirstIndex(urls, u) ==
    Min({i \in 1..Len(urls) : urls[i] = u})

\* C7: every call of _build_candidate_urls for the same item, URL and
\* preference returns the same list; the list holds every URL of the
\* preference-sorted sequence exactly once, in the order of their first
\* occurrences in that sequence.
C7_CandidatesDeterministicDeduplicated ==
    LET pre == CandidatesBeforeDedup(urlItem, urlOrig, FORCE_DETAIL_DOMAIN)
    IN  \A k \in 1..Len(urlCalls) :
            LET out == urlCalls[k]
            IN  /\ out = urlCalls[1]
                /\ \A i, j \in 1..Len(out) : i # j => out[i] # out[j]
                /\ Range(out) = Range(pre)
                /\ \A i, j \in 1..Len(out) :
                       i < j => FirstIndex(pre, out[i]) < FirstIndex(pre, out[j])

\* C7 witness: two calls have returned, and the sequence before deduplication
\* held a URL twice with another URL in between
C7_Witness ==
    LET pre == CandidatesBeforeDedup(urlItem, urlOrig, FORCE_DETAIL_DOMAIN)
    IN  /\ Len(urlCalls) = 2
        /\ FORCE_DETAIL_DOMAIN = "video"
        /\ \E i, j \in 1..Len(pre) : i + 1 < j /\ pre[i] = pre[j]
        /\ Len(urlCalls[2]) < Len(pre)

----------------------------------------------------------------------------
(* Specification Spec: one call of fetch_description_from_detail_page.      *)
(* Lines 328-332 of the source (the BeautifulSoup normalisation) are read   *)
(* as part of the body of the try statement of line 325.                    *)

Rep(n, c) ==
    [k \in 1..n |-> c]

\* n characters of prose ending in `marks` sentence marks
Prose(n, marks) ==
    Rep(n - marks, "x") \o Rep(marks, "#MARU")

Page(chrome, blocks, headings, paras, og, meta, jsonld) ==
    [chrome |-> chrome, blocks |-> blocks, headings |-> headings, paras |-> paras,
     og |-> og, meta |-> meta, jsonld |-> jsonld]

JsonObj(isDict, desc, sub) ==
    [isDict |-> isDict, desc |-> desc, sub |-> sub]

\* The bodies a candidate URL may answer with.
PagePool ==
    << \* 1: an empty body
       Page(<<>>, <<>>, <<>>, <<>>, None, None, <<>>),
       \* 2: 80 characters of prose in div.mg-b20.lh4 and a 40-character og
       Page(Rep(5, "h"), <<Prose(80, 2)>>, <<>>, <<>>, Some(Rep(40, "o")), None, <<>>),
       \* 3: the same behind an age notice in the footer
       Page(P_UnderAgeEn, <<Prose(80, 2)>>, <<>>, <<>>, Some(Rep(40, "o")), None, <<>>),
       \* 4: a main block that names minors, and a 40-character og
       Page(Rep(5, "h"), <<Rep(60, "x") \o P_miseinen>>, <<>>, <<>>, Some(Rep(40, "o")), None, <<>>),
       \* 5: og of exactly 30 characters
       Page(Rep(5, "h"), <<>>, <<>>, <<>>, Some(Rep(30, "o")), None, <<>>),
       \* 6: og one character short, meta of 30
       Page(Rep(5, "h"), <<>>, <<>>, <<>>, Some(Rep(29, "o")), Some(Rep(30, "m")), <<>>),
       \* 7: meta one character long; a JSON-LD block that does not parse, then
       \*    one with a non-dict and a dict with subjectOf.description
       Page(Rep(5, "h"), <<>>, <<>>, <<>>, None, Some(Rep(701, "m")),
            << [parses |-> FALSE, objs |-> <<JsonObj(TRUE, Some(Rep(40, "j")), None)>>],
               [parses |-> TRUE, objs |-> <<JsonObj(FALSE, Some(Rep(40, "n")), None),
                                            JsonObj(TRUE, Some(Rep(10, "j")), Some(Rep(35, "s")))>>] >>),
       \* 8: a block one character long and a paragraph of 1200
       Page(Rep(5, "h"), <<Rep(1201, "x")>>, <<>>, <<Rep(1200, "p")>>, None, None, <<>>),
       \* 9: an og whose cleaning joins a forbidden phrase, and a meta of 700
       Page(Rep(5, "h"), <<>>, <<>>, <<>>,
            Some(<<"#sei", "#jin">> \o P_mushuusei \o <<"#muke", "#ke">> \o Rep(40, "o")),
            Some(Rep(700, "m")), <<>>),
       \* 10: an og that holds an age marker
       Page(Rep(5, "h"), <<>>, <<>>, <<>>, Some(Rep(40, "o") \o P_18saimiman), None, <<>>),
       \* 11: a short heading section, a short paragraph and a cookie notice
       Page(Rep(5, "h"), <<>>, <<Rep(59, "x")>>, <<Rep(59, "p"), Rep(70, "p") \o P_Cookie>>,
            None, None, <<>>),
       \* 12: three blocks; the second and the third share the best score
       Page(Rep(5, "h"), <<Rep(70, "a"), Prose(64, 2), Rep(104, "b")>>, <<>>, <<>>,
            Some(Rep(40, "o")), None, <<>>),
       \* 13: a main block of 67 characters that cleaning shortens to 58, and a
       \*     JSON-LD description
       Page(Rep(5, "h"), <<Rep(56, "x") \o <<" ", " ">> \o P_nenreininshou \o <<"&", "a", "m", "p", ";">>>>,
            <<>>, <<>>, None, None,
            << [parses |-> TRUE, objs |-> <<JsonObj(TRUE, Some(Rep(30, "j")), None)>>] >>),
       \* 14: a block of 80 characters, a heading section of 62 with one mark, a
       \*     paragraph of 70 with two marks and a longer one with a cookie notice
       Page(Rep(5, "h"), <<Rep(80, "a")>>, <<Prose(62, 1)>>,
            <<Prose(70, 2), Rep(200, "p") \o P_Cookie>>, None, None, <<>>),
       \* 15: no main text; og, meta and JSON-LD descriptions that all pass
       Page(Rep(5, "h"), <<>>, <<>>, <<>>, Some(Rep(40, "o")), Some(Rep(50, "m")),
            << [parses |-> TRUE, objs |-> <<JsonObj(TRUE, Some(Rep(60, "j")), None)>>] >>),
       \* 16: a meta that names minors; three JSON-LD blocks that parse, the
       \*     first too short, the second and the third passing
       Page(Rep(5, "h"), <<>>, <<>>, <<>>, None, Some(Rep(40, "m") \o P_miseinen),
            << [parses |-> TRUE, objs |-> <<JsonObj(TRUE, Some(Rep(20, "i")), None)>>],
               [parses |-> TRUE, objs |-> <<JsonObj(TRUE, Some(Rep(31, "j")), None)>>],
               [parses |-> TRUE, objs |-> <<JsonObj(TRUE, Some(Rep(32, "k")), None)>>] >>),
       \* 17: an og description of 44 characters with an apostrophe ("It's ..."),
       \*     and a meta description of 50
       Page(Rep(5, "h"), <<>>, <<>>, <<>>,
            Some(<<"I", "t", "'", "s">> \o Rep(40, "o")), Some(Rep(50, "m")), <<>>) >>

RECURSIVE PicksFrom(_)
PicksFrom(k) ==
    IF k > Len(PagePool) THEN <<>>
    ELSE <<pick_from_html(PagePool[k], TRUE, TRUE)>> \o PicksFrom(k + 1)

\* pick_from_html of every body of the pool
PickTable ==
    PicksFrom(1)

RECURSIVE GatesFrom(_)
GatesFrom(k) ==
    IF k > Len(PagePool) THEN <<>> ELSE <<AgeGated(PagePool[k])>> \o GatesFrom(k + 1)

\* AgeGated of every body of the pool
GateTable ==
    GatesFrom(1)

SampleTitle ==
    <<"S", "a", "m", "p", "l", "e", " ", "V", "R", " ", "T", "i", "t", "l", "e">>

Item(title, description, comment, story, content_id, product_id, ii) ==
    [title |-> title, description |-> description, comment |-> comment, story |-> story,
     volume |-> <<"1", "2", "0">>, content_id |-> content_id, product_id |-> product_id,
     iteminfo |-> ii]

ItemInfo(description, comment, story, genre, actress, label) ==
    [description |-> description, comment |-> comment, story |-> story,
     genre |-> genre, actress |-> actress, label |-> label]

NoInfo ==
    ItemInfo(<<>>, <<>>, <<>>, <<>>, <<>>, <<>>)

\* The items the call is made for.
ItemPool ==
    << \* the sample item: title and genre only
      Item(SampleTitle, <<>>, <<>>, <<>>, "", "",
           ItemInfo(<<>>, <<>>, <<>>, << <<"V", "R">> >>, <<>>, <<>>)),
      \* a one-character title and nothing else
      [Item(<<"T">>, <<>>, <<>>, <<>>, "", "", NoInfo) EXCEPT !.volume = <<>>],
      \* no title
      Item(<<>>, <<>>, <<>>, <<>>, "", "", NoInfo),
      \* a title and a genre that hold forbidden phrases
      Item(P_miseinen \o Rep(30, "t"), <<>>, <<>>, <<>>, "", "",
           ItemInfo(<<>>, <<>>, <<>>, <<P_seijinmuke, <<"V", "R">>>>, <<>>, <<>>)),
      \* a catalog description of 40 characters, and a content id
      Item(Rep(12, "t"), Rep(40, "d"), <<>>, <<>>, "c1", "", NoInfo),
      \* a description too short; the comment of iteminfo is accepted
      Item(Rep(12, "t"), Rep(19, "d"), <<>>, <<>>, "", "",
           ItemInfo(<<>>, Rep(30, "c"), <<>>, <<>>, <<>>, <<>>)),
      \* description of 25 (below 30), comment of 801, story with a forbidden
      \* phrase; two actresses; a product id
      Item(Rep(12, "t"), Rep(25, "d"), Rep(801, "c"), Rep(40, "s") \o P_AdultGoods, "", "p1",
           ItemInfo(<<>>, <<>>, <<>>, << <<"V", "R">> >>, <<Rep(3, "a"), Rep(4, "b")>>, <<Rep(2, "l")>>)) >>

\* the item of the call
TheItem ==
    ItemPool[resItem]

RECURSIVE FallbacksFrom(_)
FallbacksFrom(k) ==
    IF k > Len(ItemPool) THEN <<>>
    ELSE <<fallback_description(ItemPool[k])>> \o FallbacksFrom(k + 1)

\* fallback_description of every item of the pool
FallbackTable ==
    FallbacksFrom(1)

ResolveUrls ==
    { Url("https", "www", <<"digital", "videoa", "-", "detail", "=", "cid=c1">>,
          << <<"affiliate_id", "a">> >>),
      Url("https", "al", <<"redirect">>, << <<"id", "c1">> >>) }

TransportErrors ==
    {"Timeout", "ConnectionError"}

HttpStatuses ==
    {200, 404}

NoIteration ==
    [outcome |-> "none", exc |-> "none", status |-> 0, page |-> 0, src |-> "none",
     stages |-> <<>>]

Init ==
    /\ FORCE_DETAIL_DOMAIN \in {"", "video"}
    /\ SCRAPE_DESC \in BOOLEAN
    /\ BeautifulSoup \in BOOLEAN
    /\ resItem \in 1..Len(ItemPool)
    /\ resUrl \in ResolveUrls
    /\ pc = "start"
    /\ candList = <<>>
    /\ tried = 0
    /\ fetched = <<>>
    /\ cur = NoIteration
    /\ last_err = "none"
    /\ result = None
    /\ tier = "none"
    /\ raised = FALSE
    /\ IdleClean
    /\ IdleUrls
    /\ IdleMain
    /\ IdleFetch
    /\ IdleSplit

resConfig == <<FORCE_DETAIL_DOMAIN, SCRAPE_DESC, BeautifulSoup, resItem, resUrl, cleanVars, urlVars,
               mainVars, fetchVars, splitVars>>

\* return fallback_description(item)
ReturnFallback ==
    /\ result' = Some(FallbackTable[resItem].text)
    /\ tier' = FallbackTable[resItem].tier
    /\ pc' = "done"

\* a faulty variant of CallDisabled: the switch is ignored and the list is built
CallDisabled_Scrapes ==
    /\ pc = "start"
    /\ ~SCRAPE_DESC
    /\ candList' = _build_candidate_urls(TheItem, resUrl, FORCE_DETAIL_DOMAIN)
    /\ pc' = "loop"
    /\ UNCHANGED <<tried, fetched, cur, last_err, result, tier, raised, resConfig>>

\* lines 260-261: scraping is switched off
CallDisabled ==
    /\ pc = "start"
    /\ ~SCRAPE_DESC
    /\ ReturnFallback
    /\ UNCHANGED <<candList, tried, fetched, cur, last_err, raised, resConfig>>

\* line 324: the for statement evaluates _build_candidate_urls(item, url)
BuildCandidates ==
    /\ pc = "start"
    /\ SCRAPE_DESC
    /\ candList' = _build_candidate_urls(TheItem, resUrl, FORCE_DETAIL_DOMAIN)
    /\ pc' = "loop"
    /\ UNCHANGED <<tried, fetched, cur, last_err, result, tier, raised, resConfig>>

\* a faulty variant of Caught: only the errors of requests are caught
Caught_RequestsOnly(exc) ==
    exc \in TransportErrors

\* except Exception: every error the iteration can raise is an Exception
Caught(exc) ==
    exc \in TransportErrors \cup {"TypeError", "ParserRejectedMarkup"}

\* a faulty variant of Except: the first error gives up on the remaining candidates
Except_GiveUp(exc) ==
    /\ last_err' = exc
    /\ ReturnFallback
    /\ UNCHANGED raised

\* lines 339-342, or the error leaving the function
Except(exc) ==
    IF Caught(exc)
    THEN /\ last_err' = exc
         /\ UNCHANGED <<pc, result, tier, raised>>
    ELSE /\ raised' = TRUE
         /\ pc' = "done"
         /\ UNCHANGED <<last_err, result, tier>>

\* a faulty variant of NextCandidate: the first candidate is requested again
NextCandidate_Refetch ==
    /\ pc = "loop"
    /\ tried < Len(candList)
    /\ tried' = tried + 1
    /\ fetched' = Append(fetched, 1)

\* the next candidate is taken from the list
NextCandidate ==
    /\ pc = "loop"
    /\ tried < Len(candList)
    /\ tried' = tried + 1
    /\ fetched' = Append(fetched, tried + 1)

\* one iteration: requests.get raises
TryTransportError ==
    /\ NextCandidate
    /\ \E exc \in TransportErrors :
          /\ cur' = [NoIteration EXCEPT !.outcome = "transport-error", !.exc = exc]
          /\ Except(exc)
    /\ UNCHANGED <<candList, resConfig>>

\* one iteration: a response arrives and both BeautifulSoup calls raise (as
\* they do when bs4 is not installed)
TryParseError ==
    /\ NextCandidate
    /\ \E status \in HttpStatuses :
          LET exc == IF BeautifulSoup THEN "ParserRejectedMarkup" ELSE "TypeError"
          IN  /\ cur' = [NoIteration EXCEPT !.outcome = "parse-error", !.exc = exc,
                                            !.status = status]
              /\ Except(exc)
    /\ UNCHANGED <<candList, resConfig>>

\* one iteration: a response arrives, is normalised (by lxml, or by
\* html.parser when lxml raises) and handed to pick_from_html
TryResponse ==
    /\ NextCandidate
    /\ BeautifulSoup
    /\ \E status \in HttpStatuses, p \in 1..Len(PagePool), parser \in {"lxml", "html.parser"} :
          \E pick \in {PickTable[p]} :
              /\ cur' = [outcome |-> "response", status |-> status, page |-> p,
                         src |-> pick.src, stages |-> pick.stages]
              /\ IF pick.desc # None /\ pick.desc[1] # <<>>
                 THEN /\ result' = pick.desc
                      /\ tier' = pick.src
                      /\ pc' = "done"
                 ELSE UNCHANGED <<result, tier, pc>>
    /\ UNCHANGED <<candList, last_err, raised, resConfig>>

\* lines 344-346: every candidate was tried and none returned
Exhausted ==
    /\ pc = "loop"
    /\ tried = Len(candList)
    /\ ReturnFallback
    /\ UNCHANGED <<candList, tried, fetched, cur, last_err, raised, resConfig>>

Next ==
    \/ CallDisabled
    \/ BuildCandidates
    \/ TryTransportError
    \/ TryParseError
    \/ TryResponse
    \/ Exhausted

Spec ==
    Init /\ [][Next]_vars

\* the scheduling of one call: the interpreter always runs the next statement
SpecLive ==
    Spec /\ WF_vars(Next)

\* the srcs under which a text taken from a page is returned
PageTiers ==
    {"main", "og", "meta", "jsonld", "jsonld.subject"}

FallbackTiers ==
    {"catalog", "synthesized"}

\* the latest iteration got a response whose body holds an age marker
GatedIteration ==
    cur.outcome = "response" /\ GateTable[cur.page]

\* the latest iteration ended in an error (requests.get or both parsers raised)
FailedIteration ==
    cur.outcome \in {"transport-error", "parse-error"}

\* what follows an iteration that returned nothing: the request for the next
\* candidate when there is one, the fallback description otherwise
ProceedsToNextOrFallback ==
    IF tried < Len(candList)
    THEN fetched' = Append(fetched, tried + 1)
    ELSE /\ pc' = "done"
         /\ raised' = FALSE
         /\ tier' \in FallbackTiers
         /\ result' = Some(FallbackTable[resItem].text)

\* C1: for an item with a title, whatever the fetches of its candidate URLs
\* do, the call ends, it ends without raising, and it returns a non-empty
\* string.
C1_AlwaysReturnsText ==
    /\ <>(pc = "done")
    /\ [](pc = "done" /\ TheItem.title # <<>>
            => ~raised /\ result # None /\ result[1] # <<>>)

\* C1 witness: an item with a title, at least seven candidates, every one
\* tried, the last one failed, and the synthesized sentence returned
C1_Witness ==
    /\ pc = "done"
    /\ TheItem.title # <<>>
    /\ tried = Len(candList)
    /\ tried >= 7
    /\ FailedIteration
    /\ last_err = "ParserRejectedMarkup"
    /\ tier = "synthesized"
    /\ result # None

\* C2 (as claimed): every returned description, whichever tier produced it,
\* is acceptable to is_valid_description (at least 30 characters, none of
\* NG_DESCRIPTIONS).
C2_EveryTierValid ==
    pc = "done" /\ result # None => is_valid_description(result[1])

\* C2 (amended): a description from the main body, og, meta, JSON-LD or a
\* catalog field is acceptable to is_valid_description and within the length
\* bounds of its tier; the synthesized sentence is only longer than 10
\* characters.
C2_ValidatedTiersValid ==
    pc = "done" /\ result # None =>
        LET d == result[1]
        IN  CASE tier = "main" ->
                    is_valid_description(d) /\ MainMinLen <= Len(d) /\ Len(d) <= MainMaxLen
              [] tier \in {"og", "meta", "jsonld", "jsonld.subject"} ->
                    is_valid_description(d) /\ MetaMinLen <= Len(d) /\ Len(d) <= MetaMaxLen
              [] tier = "catalog" ->
                    is_valid_description(d) /\ CatalogMinLen <= Len(d) /\ Len(d) <= CatalogMaxLen
              [] tier = "synthesized" -> Len(d) > BaseMinLen
              [] OTHER -> FALSE

\* C2 witness: the og text was rejected because cleaning joined a forbidden
\* phrase, and the meta text of 700 characters was returned
C2_Witness ==
    /\ pc = "done"
    /\ cur.page = 9
    /\ tier = "meta"
    /\ result # None
    /\ Len(result[1]) = MetaMaxLen

RECURSIVE QualMainFrom(_)
QualMainFrom(k) ==
    IF k > Len(PagePool) THEN <<>>
    ELSE << \E n \in 1..Len(PagePool[k].blocks) : MainOk(_clean_text(PagePool[k].blocks[n])) >>
         \o QualMainFrom(k + 1)

\* for every body of the pool: a structural block passes the main-body rule
QualMainTable ==
    QualMainFrom(1)

RECURSIVE QualOgFrom(_)
QualOgFrom(k) ==
    IF k > Len(PagePool) THEN <<>>
    ELSE << PagePool[k].og # None /\ MetaOk(_clean_text(PagePool[k].og[1])) >>
         \o QualOgFrom(k + 1)

\* for every body of the pool: the og:description passes the meta rule
QualOgTable ==
    QualOgFrom(1)

RECURSIVE BestMainFrom(_)
BestMainFrom(k) ==
    IF k > Len(PagePool) THEN <<>>
    ELSE <<extract_main_description(PagePool[k], TRUE, TRUE)>> \o BestMainFrom(k + 1)

\* for every body of the pool: what extract_main_description returns
BestMainTable ==
    BestMainFrom(1)

\* C3 (as claimed): whenever a fetched page holds a qualifying main-body block
\* (cleaned length in [60,1200], no site boilerplate) and a qualifying
\* og:description, the main-body text is returned.
C3_MainBeatsOg ==
    cur.outcome = "response" /\ QualMainTable[cur.page] /\ QualOgTable[cur.page]
        => pc = "done" /\ tier = "main"

\* C3 (amended): whenever a fetched page without an age marker holds a
\* qualifying og:description and the main-body text extract_main_description
\* selects is acceptable to is_valid_description, that main-body text is
\* returned, not the og text.
C3_ValidMainBeatsOg ==
    /\ cur.outcome = "response"
    /\ ~GateTable[cur.page]
    /\ QualOgTable[cur.page]
    /\ BestMainTable[cur.page] # None
    /\ is_valid_description(BestMainTable[cur.page][1])
    => /\ pc = "done"
       /\ tier = "main"
       /\ result = BestMainTable[cur.page]

\* C3 witness: the page with 80 characters of prose and a 40-character og was
\* fetched and the prose returned
C3_Witness ==
    /\ cur.outcome = "response"
    /\ cur.page = 2
    /\ QualOgTable[2]
    /\ tier = "main"
    /\ result = Some(Prose(80, 2))

\* C4: for a fetched page that holds an age marker no extraction step runs
\* and nothing is returned from it; the next step requests the next candidate,
\* or returns the fallback description when it was the last.
C4_AgeGateShortCircuit ==
    /\ [](GatedIteration =>
            /\ cur.stages = <<"age-gate">>
            /\ cur.src = "age-gate"
            /\ \/ pc = "loop" /\ result = None
               \/ pc = "done" /\ tier \in FallbackTiers /\ tried = Len(candList))
    /\ [][GatedIteration /\ pc = "loop" => ProceedsToNextOrFallback]_vars

\* C4 witness: the last candidate answered with the page whose footer holds
\* "under the age of 18", and the fallback description was returned
C4_Witness ==
    /\ GatedIteration
    /\ cur.page = 3
    /\ tried = Len(candList)
    /\ pc = "done"
    /\ tier \in FallbackTiers

\* C5 (as claimed): a candidate that answers 404 reaches neither the age-gate
\* check nor an extraction step, and no description is taken from it.
C5_NotFoundShortCircuit ==
    cur.outcome = "response" /\ cur.status = 404
        => cur.stages = <<>> /\ ~(pc = "done" /\ tier \in PageTiers)

\* C8: an error on a candidate does not end the call: it is recorded in
\* last_err, nothing is raised, and the next step requests the next candidate
\* or, after the last, returns the fallback description.
C8_FailureAdvances ==
    /\ [](FailedIteration =>
            /\ ~raised
            /\ last_err = cur.exc
            /\ \/ pc = "loop" /\ result = None
               \/ pc = "done" /\ tier \in FallbackTiers /\ tried = Len(candList))
    /\ [][FailedIteration /\ pc = "loop" => ProceedsToNextOrFallback]_vars

\* C8 witness: the request for the last of several candidates timed out and
\* the fallback description was returned
C8_Witness ==
    /\ FailedIteration
    /\ cur.exc = "Timeout"
    /\ last_err = "Timeout"
    /\ tried = Len(candList)
    /\ tried >= 2
    /\ pc = "done"
    /\ result = Some(FallbackTable[resItem].text)

----------------------------------------------------------------------------
(* Specification SpecClean: _clean_text applied to a string, then to its    *)
(* own result.                                                              *)

MaxFrags == 3

CleanFragments ==
    { <<"x">>, <<" ">>, <<"#MARU">>,
      <<"&", "a", "m", "p", ";">>, <<"a", "m", "p", ";">>,
      <<"#sei", "#jin">>, <<"#muke", "#ke">>, P_mushuusei }

RECURSIVE Concat(_)
Concat(ss) ==
    IF ss = <<>> THEN <<>> ELSE Head(ss) \o Concat(Tail(ss))

CleanInputs ==
    {Concat(fs) : fs \in UNION {[1..n -> CleanFragments] : n \in 0..MaxFrags}}

InitClean ==
    /\ cleanIn \in CleanInputs
    /\ cleanHist = <<>>
    /\ FORCE_DETAIL_DOMAIN = ""
    /\ IdleUrls
    /\ IdleResolve
    /\ IdleMain
    /\ IdleFetch
    /\ IdleSplit

\* d = _clean_text(...): the first call cleans the input, the next one the
\* previous result
CleanCall ==
    /\ Len(cleanHist) < 2
    /\ cleanHist' = Append(cleanHist,
                           _clean_text(IF cleanHist = <<>> THEN cleanIn
                                       ELSE cleanHist[Len(cleanHist)]))
    /\ UNCHANGED <<cleanIn, FORCE_DETAIL_DOMAIN, urlVars, resVars, mainVars, fetchVars, splitVars>>

NextClean ==
    CleanCall

SpecClean ==
    InitClean /\ [][NextClean]_vars

\* C6 (as claimed): cleaning an already cleaned string changes nothing,
\* _clean_text(_clean_text(s)) = _clean_text(s) for every s.
C6_CleanIdempotent ==
    Len(cleanHist) = 2 => cleanHist[2] = cleanHist[1]

----------------------------------------------------------------------------
(* Specification SpecMain: the posting loop of main over the recent and the *)
(* backlog items, with create_wp_post as the step taken for one item.       *)

MaxItems == 3

MaxPostLimit == 2

\* The items a run can meet: the title and the two sample image lists of
\* sampleImageURL (None when the key is absent, else the number of images).
MainItems ==
    << [title |-> "A", sample_l |-> Some(2), sample_s |-> None],
       [title |-> "A", sample_l |-> None, sample_s |-> Some(1)],
       [title |-> "B", sample_l |-> Some(0), sample_s |-> Some(1)],
       [title |-> "B", sample_l |-> Some(1), sample_s |-> Some(2)] >>

Titles ==
    {MainItems[k].title : k \in DOMAIN MainItems}

\* int(os.environ.get("POST_LIMIT", "2")): the limits a run is given (a
\* negative one behaves like 0 in both tests of main)
PostLimits ==
    0..MaxPostLimit

\* the released items, newest first
ReleasedLists ==
    UNION {[1..n -> DOMAIN MainItems] : n \in 0..MaxItems}

\* lines 471-476: sample_l when the key is there, else sample_s, else nothing
SampleImages(it) ==
    IF it.sample_l # None THEN it.sample_l[1]
    ELSE IF it.sample_s # None THEN it.sample_s[1]
    ELSE 0

\* wp.call(GetPosts({"post_status": "publish", "s": title})): the titles of
\* the posts the search returns, among those on the site
GetPostsResults(title) ==
    {existing \in SUBSET (published \cup Range(created)) :
        (searchFresh /\ title \in Range(created)) => title \in existing}

AlreadyPosted_Never(existing, title) ==
    FALSE

\* any(p.title == title for p in existing)
AlreadyPosted(existing, title) ==
    \E p \in existing : p = title

NoCall ==
    [item |-> 0, existing |-> {}, ret |-> "none", thumb |-> FALSE,
     uploads |-> 0, fetches |-> 0, newposts |-> 0]

InitMain ==
    /\ POST_LIMIT \in PostLimits
    /\ \E all \in ReleasedLists, k \in 0..MaxItems :
          /\ k <= Len(all)
          /\ recent = SubSeq(all, 1, k)
          /\ backlog = SubSeq(all, k + 1, Len(all))
    /\ published \in SUBSET Titles
    /\ searchFresh \in BOOLEAN
    /\ mainPc = "recent"
    /\ loopAt = 0
    /\ posted = 0
    /\ created = <<>>
    /\ wpCall = NoCall
    /\ attempts = <<>>
    /\ mainFailed = FALSE
    /\ FORCE_DETAIL_DOMAIN = ""
    /\ IdleClean
    /\ IdleUrls
    /\ IdleResolve
    /\ IdleFetch
    /\ IdleSplit

mainConfig == <<POST_LIMIT, recent, backlog, published, searchFresh, FORCE_DETAIL_DOMAIN,
                cleanVars, urlVars, resVars, fetchVars, splitVars>>

CurrentList ==
    IF mainPc = "recent" THEN recent ELSE backlog

\* the for loop hands the next item of its list to create_wp_post
Attempting ==
    /\ mainPc \in {"recent", "backlog"}
    /\ loopAt < Len(CurrentList)

NextItem ==
    CurrentList[loopAt + 1]

\* the call of create_wp_post on the next item ended with ret; thumb tells
\* whether upload_image returned an id
Attempted(ret, thumb) ==
    Append(attempts, [list |-> mainPc, at |-> loopAt + 1, ret |-> ret, thumb |-> thumb])

\* a faulty variant of PreCheckRaises: the error is swallowed and the loop goes on
PreCheckRaises_Continues ==
    /\ Attempting
    /\ loopAt' = loopAt + 1
    /\ wpCall' = [NoCall EXCEPT !.item = NextItem, !.ret = "raise"]
    /\ attempts' = Attempted("raise", FALSE)
    /\ mainFailed' = TRUE
    /\ UNCHANGED <<mainPc, posted, created, mainConfig>>

\* line 465 raises: the exception leaves create_wp_post and is caught by
\* main's except clause
PreCheckRaises ==
    /\ Attempting
    /\ loopAt' = loopAt + 1
    /\ wpCall' = [NoCall EXCEPT !.item = NextItem, !.ret = "raise"]
    /\ attempts' = Attempted("raise", FALSE)
    /\ mainFailed' = TRUE
    /\ mainPc' = "end"
    /\ UNCHANGED <<posted, created, mainConfig>>

\* lines 465-468: a returned post has the item's title
SkipPublished ==
    /\ Attempting
    /\ loopAt' = loopAt + 1
    /\ \E existing \in GetPostsResults(MainItems[NextItem].title) :
          /\ AlreadyPosted(existing, MainItems[NextItem].title)
          /\ wpCall' = [NoCall EXCEPT !.item = NextItem, !.existing = existing,
                                      !.ret = "False"]
    /\ attempts' = Attempted("False", FALSE)
    /\ UNCHANGED <<mainPc, posted, created, mainFailed, mainConfig>>

\* a faulty variant of SkipNoImages: the skipped item is counted as posted
SkipNoImages_Counted ==
    /\ Attempting
    /\ loopAt' = loopAt + 1
    /\ SampleImages(MainItems[NextItem]) = 0
    /\ \E existing \in GetPostsResults(MainItems[NextItem].title) :
          /\ ~AlreadyPosted(existing, MainItems[NextItem].title)
          /\ wpCall' = [NoCall EXCEPT !.item = NextItem, !.existing = existing,
                                      !.ret = "False"]
    /\ attempts' = Attempted("False", FALSE)
    /\ posted' = posted + 1
    /\ UNCHANGED <<mainPc, created, mainFailed, mainConfig>>

\* lines 470-479: no sample image
SkipNoImages ==
    /\ Attempting
    /\ loopAt' = loopAt + 1
    /\ SampleImages(MainItems[NextItem]) = 0
    /\ \E existing \in GetPostsResults(MainItems[NextItem].title) :
          /\ ~AlreadyPosted(existing, MainItems[NextItem].title)
          /\ wpCall' = [NoCall EXCEPT !.item = NextItem, !.existing = existing,
                                      !.ret = "False"]
    /\ attempts' = Attempted("False", FALSE)
    /\ UNCHANGED <<mainPc, posted, created, mainFailed, mainConfig>>

\* lines 480-512 and 533-536 (539-542): the thumbnail upload (which may
\* fail without raising), the description, NewPost, then posted += 1 and
\* the break test
PostItem ==
    /\ Attempting
    /\ loopAt' = loopAt + 1
    /\ SampleImages(MainItems[NextItem]) > 0
    /\ \E existing \in GetPostsResults(MainItems[NextItem].title), thumb \in BOOLEAN :
          /\ ~AlreadyPosted(existing, MainItems[NextItem].title)
          /\ wpCall' = [item |-> NextItem, existing |-> existing, ret |-> "True",
                        thumb |-> thumb, uploads |-> 1, fetches |-> 1, newposts |-> 1]
          /\ attempts' = Attempted("True", thumb)
    /\ created' = Append(created, MainItems[NextItem].title)
    /\ posted' = posted + 1
    /\ mainPc' = IF posted + 1 >= POST_LIMIT THEN "end" ELSE mainPc
    /\ UNCHANGED <<mainFailed, mainConfig>>

\* line 510 raises: nothing is created and main's except clause ends the run
NewPostRaises ==
    /\ Attempting
    /\ loopAt' = loopAt + 1
    /\ SampleImages(MainItems[NextItem]) > 0
    /\ \E existing \in GetPostsResults(MainItems[NextItem].title), thumb \in BOOLEAN :
          /\ ~AlreadyPosted(existing, MainItems[NextItem].title)
          /\ wpCall' = [item |-> NextItem, existing |-> existing, ret |-> "raise",
                        thumb |-> thumb, uploads |-> 1, fetches |-> 1, newposts |-> 1]
          /\ attempts' = Attempted("raise", thumb)
    /\ mainFailed' = TRUE
    /\ mainPc' = "end"
    /\ UNCHANGED <<posted, created, mainConfig>>

\* a faulty variant of RecentExhausted: the backlog is entered whatever posted is
RecentExhausted_Always ==
    /\ mainPc = "recent"
    /\ loopAt = Len(recent)
    /\ mainPc' = "backlog"
    /\ loopAt' = 0
    /\ UNCHANGED <<posted, created, wpCall, attempts, mainFailed, mainConfig>>

\* lines 531 and 537: the recent list is used up, the backlog is entered when
\* posted < POST_LIMIT
RecentExhausted ==
    /\ mainPc = "recent"
    /\ loopAt = Len(recent)
    /\ IF posted < POST_LIMIT
       THEN /\ mainPc' = "backlog"
            /\ loopAt' = 0
       ELSE /\ mainPc' = "end"
            /\ UNCHANGED loopAt
    /\ UNCHANGED <<posted, created, wpCall, attempts, mainFailed, mainConfig>>

\* line 538: the backlog is used up
BacklogExhausted ==
    /\ mainPc = "backlog"
    /\ loopAt = Len(backlog)
    /\ mainPc' = "end"
    /\ UNCHANGED <<loopAt, posted, created, wpCall, attempts, mainFailed, mainConfig>>

NextMain ==
    \/ PreCheckRaises
    \/ SkipPublished
    \/ SkipNoImages
    \/ PostItem
    \/ NewPostRaises
    \/ RecentExhausted
    \/ BacklogExhausted

SpecMain ==
    InitMain /\ [][NextMain]_vars

\* C9 (as claimed): whatever POST_LIMIT is, a run never creates more posts
\* than POST_LIMIT.
C9_PostsWithinLimit ==
    Len(created) <= POST_LIMIT

\* C10: a call whose pre-check returned a post with the item's title returns
\* False without an upload, a detail-page fetch or a NewPost call; and when
\* the pre-check returns the posts created earlier in the run, the titles of
\* the posts created in the run are pairwise different.
C10_SkipIfAlreadyPublished ==
    /\ (wpCall.item # 0 /\ MainItems[wpCall.item].title \in wpCall.existing)
          => /\ wpCall.ret = "False"
             /\ wpCall.uploads = 0
             /\ wpCall.fetches = 0
             /\ wpCall.newposts = 0
    /\ searchFresh => \A m, n \in DOMAIN created : m # n => created[m] # created[n]

\* an item with images is skipped because its title was posted earlier in
\* the same run
C10_Witness ==
    /\ searchFresh
    /\ wpCall.item # 0
    /\ wpCall.ret = "False"
    /\ SampleImages(MainItems[wpCall.item]) > 0
    /\ MainItems[wpCall.item].title \in wpCall.existing
    /\ MainItems[wpCall.item].title \in Range(created)
    /\ MainItems[wpCall.item].title \notin published

\* the calls made before the n-th one
PostsFromRecentBefore(n) ==
    Cardinality({m \in 1..(n - 1) : attempts[m].list = "recent" /\ attempts[m].ret = "True"})

\* C11: a backlog item is attempted only after every recent item was
\* attempted, in list order, and with fewer than POST_LIMIT posts made from
\* the recent items; no recent item is attempted after a backlog item.
C11_RecentBeforeBacklog ==
    \A n \in DOMAIN attempts :
        /\ attempts[n].list = "backlog" =>
              /\ n > Len(recent)
              /\ \A k \in 1..Len(recent) :
                    attempts[k].list = "recent" /\ attempts[k].at = k
              /\ PostsFromRecentBefore(n) < POST_LIMIT
        /\ attempts[n].list = "recent" =>
              \A m \in 1..(n - 1) : attempts[m].list = "recent"

\* a backlog item is attempted after two recent items, one of them posted
C11_Witness ==
    /\ Len(recent) = 2
    /\ Len(attempts) = 3
    /\ attempts[3].list = "backlog"
    /\ PostsFromRecentBefore(3) = 1

----------------------------------------------------------------------------
(* Specification SpecFetch: fetch_all_vr_released_sorted, page by page, then *)
(* the filter and the sort.  A date is the string of the catalog, character *)
(* by character; a timestamp is <<year, month, day, hour, minute, second>>. *)

Digits ==
    <<"0", "1", "2", "3", "4", "5", "6", "7", "8", "9">>

IsDigit(c) ==
    \E d \in 1..Len(Digits) : Digits[d] = c

DigitOf(c) ==
    (CHOOSE d \in 1..Len(Digits) : Digits[d] = c) - 1

\* int() of a string of digits
RECURSIVE IntOf(_)
IntOf(ds) ==
    IF ds = <<>> THEN 0 ELSE 10 * IntOf(SubSeq(ds, 1, Len(ds) - 1)) + DigitOf(ds[Len(ds)])

\* the length of the run of digits of s that starts at place i
DigitRun(s, i) ==
    LET stop == {j \in i..Len(s) : ~IsDigit(s[j])}
    IN  IF stop = {} THEN Len(s) - i + 1 ELSE Min(stop) - i

\* the length of the run of whitespace of s that starts at place i
SpaceRun(s, i) ==
    LET stop == {j \in i..Len(s) : ~IsSpace(s[j])}
    IN  IF stop = {} THEN Len(s) - i + 1 ELSE Min(stop) - i

\* a directive of one or two digits (%m, %d, %H, %M, %S) at place i, then
\* the literal sep (<<>> at the end of the string): the value and the place
\* after it, or None
TwoDigitField(s, i, lo, hi, sep) ==
    LET n == DigitRun(s, i)
        v == IntOf(SubSeq(s, i, i + n - 1))
        after == i + n
    IN  IF n \notin {1, 2} \/ v < lo \/ v > hi THEN None
        ELSE IF sep = <<>> THEN (IF after = Len(s) + 1 THEN Some([val |-> v, next |-> after])
                                 ELSE None)
        ELSE IF after <= Len(s) /\ s[after] = sep[1]
             THEN Some([val |-> v, next |-> after + 1])
             ELSE None

IsLeap(y) ==
    (y % 4 = 0 /\ y % 100 # 0) \/ y % 400 = 0

DaysIn(y, m) ==
    IF m = 2 THEN (IF IsLeap(y) THEN 29 ELSE 28)
    ELSE IF m \in {4, 6, 9, 11} THEN 30
    ELSE 31

\* datetime.strptime(s, "%Y-%m-%d %H:%M:%S"): four digits of year, then
\* month, day, hour, minute and second of one or two digits each, the space
\* of the format standing for a run of whitespace; None for ValueError
parse_jst_date(s) ==
    IF ~(DigitRun(s, 1) = 4 /\ Len(s) >= 5 /\ s[5] = "-") THEN None
    ELSE LET y == IntOf(SubSeq(s, 1, 4))
             m == TwoDigitField(s, 6, 1, 12, <<"-">>)
         IN  IF m = None THEN None
             ELSE LET dn == DigitRun(s, m[1].next)
                      dv == IntOf(SubSeq(s, m[1].next, m[1].next + dn - 1))
                      sp == SpaceRun(s, m[1].next + dn)
                      h == TwoDigitField(s, m[1].next + dn + sp, 0, 23, <<":">>)
                  IN  IF dn \notin {1, 2} \/ dv < 1 \/ dv > 31 \/ sp < 1 \/ h = None THEN None
                      ELSE LET mi == TwoDigitField(s, h[1].next, 0, 59, <<":">>)
                           IN  IF mi = None THEN None
                               ELSE LET sec == TwoDigitField(s, mi[1].next, 0, 59, <<>>)
                                    IN  IF sec = None \/ dv > DaysIn(y, m[1].val) THEN None
                                        ELSE Some(<<y, m[1].val, dv, h[1].val, mi[1].val,
                                                    sec[1].val>>)

\* a <= b for two timestamps
RECURSIVE TimeLeq(_, _)
TimeLeq(a, b) ==
    IF a = <<>> THEN TRUE
    ELSE IF Head(a) # Head(b) THEN Head(a) < Head(b)
    ELSE TimeLeq(Tail(a), Tail(b))

\* ord() of the characters of a date string
DateChars ==
    <<" ", "-", "/", "0", "1", "2", "3", "4", "5", "6", "7", "8", "9", ":">>

Ord(c) ==
    CHOOSE k \in 1..Len(DateChars) : DateChars[k] = c

\* a < b for two str
RECURSIVE StrLess(_, _)
StrLess(a, b) ==
    IF b = <<>> THEN FALSE
    ELSE IF a = <<>> THEN TRUE
    ELSE IF Head(a) # Head(b) THEN Ord(Head(a)) < Ord(Head(b))
    ELSE StrLess(Tail(a), Tail(b))

\* "2024-11-20 10:00:00"
D_Recent ==
    <<"2", "0", "2", "4", "-", "1", "1", "-", "2", "0", " ", "1", "0", ":", "0", "0", ":", "0", "0">>

\* "2024-10-01 00:00:00"
D_October ==
    <<"2", "0", "2", "4", "-", "1", "0", "-", "0", "1", " ", "0", "0", ":", "0", "0", ":", "0", "0">>

\* "2024-9-01 00:00:00"
D_SeptemberUnpadded ==
    <<"2", "0", "2", "4", "-", "9", "-", "0", "1", " ", "0", "0", ":", "0", "0", ":", "0", "0">>

\* "2025-01-01 10:00:00"
D_Future ==
    <<"2", "0", "2", "5", "-", "0", "1", "-", "0", "1", " ", "1", "0", ":", "0", "0", ":", "0", "0">>

\* "2024-11-20"
D_NoTime ==
    <<"2", "0", "2", "4", "-", "1", "1", "-", "2", "0">>

\* "2024-11-21 12:00:00"
D_Now ==
    <<"2", "0", "2", "4", "-", "1", "1", "-", "2", "1", " ", "1", "2", ":", "0", "0", ":", "0", "0">>

\* "2024-02-30 00:00:00"
D_BadDay ==
    <<"2", "0", "2", "4", "-", "0", "2", "-", "3", "0", " ", "0", "0", ":", "0", "0", ":", "0", "0">>

\* genre names: "ハイクオリティVR", "単体作品", "ＶＲ", "バーチャル", "V", "R"
G_HighQualityVR ==
    <<"#ha", "#i", "#ku", "#o", "#ri", "#ti", "V", "R">>

G_Tantai ==
    <<"#tan", "#tai", "#saku", "#hin">>

G_FullwidthVR ==
    <<"#FV", "#FR">>

G_Virtual ==
    <<"#ba", "#-", "#cha", "#ru">>

\* the three markers of contains_vr
VrMarkers ==
    {<<"V", "R">>, G_FullwidthVR, G_Virtual}

\* an entry of iteminfo.genre: a dict (with its name, None when it has none)
\* or something else
GenreDict(name) ==
    [dict |-> TRUE, name |-> name]

GenreOther ==
    [dict |-> FALSE, name |-> None]

ApiItem(genre, date) ==
    [genre |-> genre, date |-> date]

\* The items the catalog API can answer with.
ApiItems ==
    << ApiItem(<<GenreDict(Some(G_HighQualityVR))>>, Some(D_Recent)),
       ApiItem(<<GenreDict(Some(G_Tantai)), GenreDict(Some(G_HighQualityVR))>>, Some(D_October)),
       ApiItem(<<GenreDict(Some(G_FullwidthVR))>>, Some(D_SeptemberUnpadded)),
       ApiItem(<<GenreDict(Some(G_Virtual))>>, Some(D_Future)),
       ApiItem(<<GenreDict(Some(G_Tantai)), GenreDict(None)>>, Some(D_October)),
       ApiItem(<<GenreDict(Some(G_HighQualityVR))>>, None),
       ApiItem(<<GenreDict(Some(G_Virtual))>>, Some(D_NoTime)),
       ApiItem(<<GenreDict(Some(<<"V">>)), GenreDict(Some(<<"R">>)), GenreOther>>, Some(D_Recent)),
       ApiItem(<<GenreDict(Some(G_HighQualityVR))>>, Some(<<>>)),
       ApiItem(<<GenreDict(Some(G_FullwidthVR))>>, Some(D_Now)),
       ApiItem(<<GenreDict(Some(G_HighQualityVR))>>, Some(D_BadDay)) >>

\* The item lists a page of the API can hold.
ApiPages ==
    { <<>>, <<1, 2>>, <<3, 4, 5>>, <<6, 7, 10>>, <<8, 9, 11>>, <<2, 3, 1>> }

\* now_jst() at the time of the call
Nows ==
    { <<2024, 11, 21, 12, 0, 0>>, <<2025, 1, 1, 10, 0, 0>> }

\* lines 350-354
contains_vr(it) ==
    LET dicts == SelectSeq(it.genre, LAMBDA g : g.dict)
        names == [k \in 1..Len(dicts) |->
                     IF dicts[k].name = None THEN <<>> ELSE dicts[k].name[1]]
        joined == Join(names, <<" ">>)
    IN  \E mk \in VrMarkers : Contains(joined, mk)

\* lines 357-364
is_released(it, now) ==
    IF it.date = None \/ it.date[1] = <<>> THEN FALSE
    ELSE LET dt == parse_jst_date(it.date[1])
         IN  dt # None /\ TimeLeq(dt[1], now)

\* x.get('date', '')
DateKey(k) ==
    IF ApiItems[k].date = None THEN <<>> ELSE ApiItems[k].date[1]

\* one more item put into a list sorted with reverse=True: behind the items
\* whose key is not smaller (the sort is stable)
InsertDesc(sorted, k) ==
    LET smaller == {j \in 1..Len(sorted) : StrLess(DateKey(sorted[j]), DateKey(k))}
        at == IF smaller = {} THEN Len(sorted) + 1 ELSE Min(smaller)
    IN  SubSeq(sorted, 1, at - 1) \o <<k>> \o SubSeq(sorted, at, Len(sorted))

\* released.sort(key=lambda x: x.get('date', ''), reverse=True)
RECURSIVE SortByDateDesc(_)
SortByDateDesc(items) ==
    IF items = <<>> THEN <<>>
    ELSE InsertDesc(SortByDateDesc(SubSeq(items, 1, Len(items) - 1)), items[Len(items)])

\* contains_vr(it) and is_released(it) of every item of the pool, for every now
KeptTable ==
    [now \in Nows |->
        [k \in DOMAIN ApiItems |-> contains_vr(ApiItems[k]) /\ is_released(ApiItems[k], now)]]

\* lines 425-426
ReleasedOf(items, now) ==
    SortByDateDesc(SelectSeq(items, LAMBDA k : KeptTable[now][k]))

MaxPages == 3

\* int(os.environ.get("MAX_PAGES", "6"))
PageLimits ==
    0..MaxPages

\* int(os.environ.get("HITS", "30"))
HitsValues ==
    {1, 2, 30}

InitFetch ==
    /\ MAX_PAGES \in PageLimits
    /\ HITS \in HitsValues
    /\ nowJst \in Nows
    /\ fetchPc = "page"
    /\ fetchPage = 0
    /\ apiLog = <<>>
    /\ all_items = <<>>
    /\ released = None
    /\ FORCE_DETAIL_DOMAIN = ""
    /\ IdleClean
    /\ IdleUrls
    /\ IdleResolve
    /\ IdleMain
    /\ IdleSplit

fetchConfig == <<MAX_PAGES, HITS, nowJst, FORCE_DETAIL_DOMAIN, cleanVars, urlVars, resVars, mainVars,
                 splitVars>>

\* base_params(offset, use_keyword) handed to dmm_request, and how it ended:
\* with the items of the answer, or None when it raised
Requested(use_keyword, answer) ==
    Append(apiLog, [page |-> fetchPage, offset |-> 1 + fetchPage * HITS,
                    keyword |-> use_keyword, answer |-> answer])

\* lines 421-423: an empty page ends the loop, another one is added
Collect(items) ==
    IF items = <<>>
    THEN /\ fetchPc' = "filter"
         /\ UNCHANGED <<fetchPage, all_items>>
    ELSE /\ fetchPc' = "page"
         /\ fetchPage' = fetchPage + 1
         /\ all_items' = all_items \o items

\* lines 406-411: the request with keyword=VR is answered
KeywordAnswered ==
    /\ fetchPc = "page"
    /\ fetchPage < MAX_PAGES
    /\ \E items \in ApiPages :
          /\ apiLog' = Requested(TRUE, Some(items))
          /\ Collect(items)
    /\ UNCHANGED <<released, fetchConfig>>

\* lines 412-413: the request with keyword=VR raises
KeywordFailed ==
    /\ fetchPc = "page"
    /\ fetchPage < MAX_PAGES
    /\ apiLog' = Requested(TRUE, None)
    /\ fetchPc' = "retry"
    /\ UNCHANGED <<fetchPage, all_items, released, fetchConfig>>

\* lines 414-416: the request without keyword is answered
RetryAnswered ==
    /\ fetchPc = "retry"
    /\ \E items \in ApiPages :
          /\ apiLog' = Requested(FALSE, Some(items))
          /\ Collect(items)
    /\ UNCHANGED <<released, fetchConfig>>

\* a faulty variant of RetryFailed: the loop goes on with the next page
RetryFailed_Continues ==
    /\ fetchPc = "retry"
    /\ apiLog' = Requested(FALSE, None)
    /\ fetchPc' = "page"
    /\ fetchPage' = fetchPage + 1
    /\ UNCHANGED <<all_items, released, fetchConfig>>

\* lines 417-419: the request without keyword raises too, break
RetryFailed ==
    /\ fetchPc = "retry"
    /\ apiLog' = Requested(FALSE, None)
    /\ fetchPc' = "filter"
    /\ UNCHANGED <<fetchPage, all_items, released, fetchConfig>>

\* line 406: range(MAX_PAGES) is used up
PagesDone ==
    /\ fetchPc = "page"
    /\ fetchPage >= MAX_PAGES
    /\ fetchPc' = "filter"
    /\ UNCHANGED <<fetchPage, apiLog, all_items, released, fetchConfig>>

\* lines 425-428
FilterAndSort ==
    /\ fetchPc = "filter"
    /\ released' = Some(ReleasedOf(all_items, nowJst))
    /\ fetchPc' = "done"
    /\ UNCHANGED <<fetchPage, apiLog, all_items, fetchConfig>>

NextFetch ==
    \/ KeywordAnswered
    \/ KeywordFailed
    \/ RetryAnswered
    \/ RetryFailed
    \/ PagesDone
    \/ FilterAndSort

SpecFetch ==
    InitFetch /\ [][NextFetch]_vars

\* an entry of iteminfo.genre is a dict whose name holds a VR marker
HasVrGenre(it) ==
    \E k \in 1..Len(it.genre) :
        /\ it.genre[k].dict
        /\ it.genre[k].name # None
        /\ \E mk \in VrMarkers : Contains(it.genre[k].name[1], mk)

\* parse_jst_date of the date of every item of the pool that has one
ParsedTable ==
    [k \in DOMAIN ApiItems |->
        IF ApiItems[k].date = None THEN None ELSE parse_jst_date(ApiItems[k].date[1])]

\* the release timestamp of an item whose date parses
ReleaseTime(k) ==
    ParsedTable[k][1]

\* every returned item has a VR genre and a parseable release timestamp not
\* later than now; every item of all_items that has both is returned
ReturnedAreReleasedVr ==
    released # None =>
        /\ \A n \in DOMAIN released[1] :
              LET it == ApiItems[released[1][n]]
              IN  /\ HasVrGenre(it)
                  /\ it.date # None
                  /\ ParsedTable[released[1][n]] # None
                  /\ TimeLeq(ReleaseTime(released[1][n]), nowJst)
        /\ \A k \in Range(all_items) :
              (k \in Range(released[1])) <=> KeptTable[nowJst][k]

\* C12 (as claimed): the returned items have a VR genre and a parseable
\* release timestamp not later than now, and the list is in non-increasing
\* release-date order.
C12_ReleasedVrSortedByDate ==
    /\ ReturnedAreReleasedVr
    /\ released # None =>
          \A m, n \in DOMAIN released[1] :
              m < n => TimeLeq(ReleaseTime(released[1][n]), ReleaseTime(released[1][m]))

----------------------------------------------------------------------------
(* The order of the requests within one resolution.                         *)

\* the latest iteration got a page from which pick_from_html returned a text
AcceptedIteration ==
    /\ cur.outcome = "response"
    /\ PickTable[cur.page].desc # None
    /\ PickTable[cur.page].desc[1] # <<>>

\* C13: the candidates are requested in the order of the list, one per
\* step and none twice; the first page that yields an accepted text ends the
\* call with that text, nothing is requested after the call ended, and the
\* fallback text is returned only when every candidate was tried and none
\* yielded a text.
C13_InOrderFirstSuccess ==
    /\ [](/\ Len(fetched) = tried
          /\ tried <= Len(candList)
          /\ \A k \in DOMAIN fetched : fetched[k] = k
          /\ \A a, b \in DOMAIN candList : a # b => candList[a] # candList[b]
          /\ AcceptedIteration =>
                pc = "done" /\ tier \in PageTiers /\ result = PickTable[cur.page].desc
          /\ (pc = "done" /\ tier \in PageTiers) => AcceptedIteration
          /\ (pc = "done" /\ tier \in FallbackTiers) =>
                tried = Len(candList) /\ ~AcceptedIteration)
    /\ [][/\ fetched' # fetched =>
                pc = "loop" /\ result = None /\ fetched' = Append(fetched, Len(fetched) + 1)
          /\ pc = "done" => UNCHANGED <<fetched, tried, result, tier>>]_vars

\* the third candidate yielded a text while later candidates were left
C13_Witness ==
    /\ pc = "done"
    /\ AcceptedIteration
    /\ fetched = <<1, 2, 3>>
    /\ Len(candList) > 3
    /\ last_err # "none"

----------------------------------------------------------------------------
(* The domain preference of _build_candidate_urls.                          *)

\* the URLs in the order steps 1 to 3 generate them
GenerationOrder ==
    CandidatesBeforeDedup(urlItem, urlOrig, "")

\* C14: with FORCE_DETAIL_DOMAIN "www" or "video" every returned URL of the
\* preferred domain stands before every other returned URL, and two URLs of
\* the same group stand in the order in which they were generated; with any
\* other value the returned list is in generation order and starts with the
\* original URL stripped of its affiliate parameters.
C14_PreferredDomainFirstStable ==
    \A c \in DOMAIN urlCalls :
        LET out == urlCalls[c]
            pref(u) == u.sub = FORCE_DETAIL_DOMAIN
        IN  IF FORCE_DETAIL_DOMAIN \in {"www", "video"}
            THEN /\ \A i, j \in DOMAIN out : (pref(out[i]) /\ ~pref(out[j])) => i < j
                 /\ \A i, j \in DOMAIN out :
                       (i < j /\ pref(out[i]) = pref(out[j]))
                          => FirstIndex(GenerationOrder, out[i])
                                < FirstIndex(GenerationOrder, out[j])
            ELSE /\ out[1] = StripAffiliate(urlOrig)
                 /\ \A i, j \in DOMAIN out :
                       i < j => FirstIndex(GenerationOrder, out[i])
                                   < FirstIndex(GenerationOrder, out[j])

\* the preference moved URLs: the list starts with a guessed or swapped URL
\* of the preferred domain, and holds several URLs of either group
C14_Witness ==
    /\ FORCE_DETAIL_DOMAIN = "video"
    /\ Len(urlCalls) >= 1
    /\ urlOrig.sub = "www"
    /\ urlCalls[1][1] # StripAffiliate(urlOrig)
    /\ Cardinality({i \in DOMAIN urlCalls[1] : urlCalls[1][i].sub = "video"}) >= 2
    /\ Cardinality({i \in DOMAIN urlCalls[1] : urlCalls[1][i].sub = "www"}) >= 2

----------------------------------------------------------------------------
(* The selection of extract_main_description.                               *)

\* among the pooled candidates that pass ok() once cleaned, the first of
\* those with the highest score; None when no candidate passes
HighestScoring(page) ==
    LET cands == MainCandidates(page)
        cl == [k \in DOMAIN cands |-> _clean_text(cands[k])]
        valid == {k \in DOMAIN cands : MainOk(cl[k])}
        top == {k \in valid : \A j \in valid : Score(cl[k]) >= Score(cl[j])}
    IN  IF valid = {} THEN None ELSE Some(cl[Min(top)])

\* HighestScoring of every body of the pool
HighestScoringTable ==
    [p \in DOMAIN PagePool |-> HighestScoring(PagePool[p])]

\* C15: for every page the main-body step ran on, extract_main_description
\* returned the first of the highest-scoring candidates that are valid after
\* cleaning, or nothing when none is valid; a text returned under src "main"
\* is that candidate.
C15_HighestScoringValidCandidate ==
    (cur.outcome = "response" /\ "main" \in Range(cur.stages)) =>
        /\ BestMainTable[cur.page] = HighestScoringTable[cur.page]
        /\ (pc = "done" /\ tier = "main") => result = HighestScoringTable[cur.page]

\* the paragraph with two sentence marks beat the longer block and the
\* heading section, and the cookie notice was left out
C15_Witness ==
    /\ cur.outcome = "response"
    /\ cur.page = 14
    /\ pc = "done"
    /\ tier = "main"
    /\ result = Some(Prose(70, 2))
    /\ HighestScoringTable[12] = Some(Prose(64, 2))
    /\ HighestScoringTable[11] = None

----------------------------------------------------------------------------
(* The order of the metadata steps of pick_from_html.                       *)

\* the metadata texts of a page in priority order, cleaned: og:description,
\* meta description, then for every JSON-LD block that parses, in document
\* order, description and subjectOf.description of each of its dicts
MetadataSources(page) ==
    LET text(t, src) == IF t = None THEN <<>> ELSE <<[d |-> _clean_text(t[1]), src |-> src]>>
        RECURSIVE OfObjs(_)
        OfObjs(os) ==
            IF os = <<>> THEN <<>>
            ELSE (IF Head(os).isDict
                  THEN text(Head(os).desc, "jsonld") \o text(Head(os).sub, "jsonld.subject")
                  ELSE <<>>) \o OfObjs(Tail(os))
        RECURSIVE OfBlocks(_)
        OfBlocks(bs) ==
            IF bs = <<>> THEN <<>>
            ELSE (IF Head(bs).parses THEN OfObjs(Head(bs).objs) ELSE <<>>) \o OfBlocks(Tail(bs))
    IN  text(page.og, "og") \o text(page.meta, "meta") \o OfBlocks(page.jsonld)

\* the first metadata text of the page that passes the validation, or None
FirstValidMetadata(page) ==
    LET ms == MetadataSources(page)
        valid == {n \in DOMAIN ms : MetaOk(ms[n].d)}
    IN  IF valid = {} THEN None ELSE Some(ms[Min(valid)])

\* for every body of the pool: FirstValidMetadata, and whether the main-body
\* step yields nothing accepted
FirstValidMetadataTable ==
    [p \in DOMAIN PagePool |-> FirstValidMetadata(PagePool[p])]

MainRejectedTable ==
    [p \in DOMAIN PagePool |->
        BestMainTable[p] = None \/ ~is_valid_description(BestMainTable[p][1])]

\* C16 (as claimed): for a fetched page without an age marker whose
\* main-body step yields nothing accepted, the text returned is the first
\* valid one in the order og:description, meta description, JSON-LD blocks
\* in document order (blocks that do not parse being skipped), so that a
\* lower source is returned only when every higher one is absent or invalid;
\* when none is valid nothing is taken from the page.
C16_MetadataPriorityOrder ==
    (cur.outcome = "response" /\ ~GateTable[cur.page] /\ MainRejectedTable[cur.page]) =>
        LET first == FirstValidMetadataTable[cur.page]
        IN  IF first = None
            THEN cur.src = "none" /\ ~(pc = "done" /\ tier \in PageTiers)
            ELSE /\ cur.src = first[1].src
                 /\ pc = "done"
                 /\ tier = first[1].src
                 /\ result = Some(first[1].d)

----------------------------------------------------------------------------
(* The scraping switch.                                                     *)

\* C17: with SCRAPE_DESC off, a call builds no candidate list, requests no
\* URL, and returns the text fallback_description gives for the item.
C17_DisabledReturnsFallbackOnly ==
    ~SCRAPE_DESC =>
        /\ candList = <<>>
        /\ fetched = <<>>
        /\ tried = 0
        /\ cur = NoIteration
        /\ last_err = "none"
        /\ pc \in {"start", "done"}
        /\ pc = "done" =>
              /\ ~raised
              /\ result = Some(FallbackTable[resItem].text)
              /\ tier = FallbackTable[resItem].tier

\* the call returned the catalog description with scraping off
C17_Witness ==
    /\ ~SCRAPE_DESC
    /\ pc = "done"
    /\ tier = "catalog"
    /\ result = Some(FallbackTable[resItem].text)
    /\ fetched = <<>>

----------------------------------------------------------------------------
(* Failures of the publishing platform.                                     *)

\* C18: a raising pre-check or NewPost call is the last call of the run: no
\* item is attempted after it (the failed one included), nothing more is
\* created, the failed item is not counted, and main is at its end; posted
\* counts exactly the calls that returned True, whether or not their
\* thumbnail upload gave an id.
C18_PublishingFailureEndsRun ==
    /\ [](/\ \A n \in DOMAIN attempts :
                attempts[n].ret = "raise" => (n = Len(attempts) /\ mainFailed)
          /\ mainFailed =>
                /\ mainPc = "end"
                /\ attempts # <<>>
                /\ attempts[Len(attempts)].ret = "raise"
                /\ wpCall.ret = "raise"
          /\ posted = Cardinality({n \in DOMAIN attempts : attempts[n].ret = "True"})
          /\ Len(created) = posted
          /\ \A m, n \in DOMAIN attempts :
                (attempts[m].list = attempts[n].list /\ attempts[m].at = attempts[n].at)
                   => m = n)
    /\ [][mainFailed => UNCHANGED mainVars]_vars

\* an item was posted although its thumbnail upload failed, then NewPost
\* raised for the next item and the remaining item was never attempted
C18_Witness ==
    /\ mainFailed
    /\ mainPc = "end"
    /\ Len(attempts) = 2
    /\ attempts[1].ret = "True"
    /\ ~attempts[1].thumb
    /\ wpCall.newposts = 1
    /\ posted = 1
    /\ Len(recent) + Len(backlog) = 3

----------------------------------------------------------------------------
(* The pagination of fetch_all_vr_released_sorted.                          *)

\* the items of the answered requests of the log, in order
RECURSIVE CollectedFrom(_)
CollectedFrom(log) ==
    IF log = <<>> THEN <<>>
    ELSE (IF Head(log).answer = None THEN <<>> ELSE Head(log).answer[1])
         \o CollectedFrom(Tail(log))

Failed(req) ==
    req.answer = None

Empty(req) ==
    req.answer = Some(<<>>)

\* the request ends the pagination: an empty page, or the second failure
Stops(req) ==
    Empty(req) \/ (Failed(req) /\ ~req.keyword)

\* C19: the requests are for pages 0, 1, ... below MAX_PAGES at offset
\* 1 + page * HITS; a page is first requested with keyword, and without
\* keyword exactly when that request failed; an empty page or a second
\* failure is the last request; the items of the answered pages are all
\* kept, in order.
C19_PaginationProtocol ==
    /\ [](/\ \A n \in DOMAIN apiLog :
                /\ apiLog[n].page \in 0..(MAX_PAGES - 1)
                /\ apiLog[n].offset = 1 + apiLog[n].page * HITS
                /\ Stops(apiLog[n]) => n = Len(apiLog)
                /\ IF n = 1 THEN apiLog[n].page = 0 /\ apiLog[n].keyword
                   ELSE IF Failed(apiLog[n - 1])
                   THEN apiLog[n].page = apiLog[n - 1].page /\ ~apiLog[n].keyword
                   ELSE apiLog[n].page = apiLog[n - 1].page + 1 /\ apiLog[n].keyword
          /\ all_items = CollectedFrom(apiLog)
          /\ fetchPc \in {"filter", "done"} =>
                \/ apiLog # <<>> /\ Stops(apiLog[Len(apiLog)])
                \/ apiLog # <<>> /\ apiLog[Len(apiLog)].page = MAX_PAGES - 1
                                 /\ ~Failed(apiLog[Len(apiLog)])
                \/ apiLog = <<>> /\ MAX_PAGES = 0
          /\ fetchPc = "done" => released = Some(ReleasedOf(all_items, nowJst)))
    /\ [][(fetchPc \in {"filter", "done"}) => (UNCHANGED <<apiLog, all_items>>)]_vars

\* page 0 failed with keyword and was answered without; for page 1 both
\* requests failed, page 2 was never requested and the items of page 0 were
\* kept
C19_Witness ==
    /\ MAX_PAGES = 3
    /\ HITS = 30
    /\ fetchPc = "done"
    /\ Len(apiLog) = 4
    /\ Failed(apiLog[1])
    /\ apiLog[2].answer = Some(<<1, 2>>)
    /\ apiLog[3].offset = 31
    /\ Failed(apiLog[3])
    /\ Failed(apiLog[4])
    /\ all_items = <<1, 2>>
    /\ released = Some(<<1, 2>>)

----------------------------------------------------------------------------
(* What counts toward the limit.                                            *)

\* recent followed by backlog
RunList ==
    recent \o backlog

\* the item the n-th call of create_wp_post was made for
AttemptedItem(n) ==
    IF attempts[n].list = "recent" THEN recent[attempts[n].at] ELSE backlog[attempts[n].at]

\* the calls that returned True, in order
PostedAttempts ==
    SelectSeq([n \in DOMAIN attempts |-> n], LAMBDA n : attempts[n].ret = "True")

\* an item with a sample image whose title is not published when the run starts
PostableAtStart(k) ==
    SampleImages(MainItems[k]) > 0 /\ MainItems[k].title \notin published

\* main has ended without a publishing failure
EndedNormally ==
    mainPc = "end" /\ ~mainFailed

\* C20 (as claimed): a run with POST_LIMIT >= 1 and no publishing failure
\* creates exactly min(POST_LIMIT, number of postable items of recent
\* followed by backlog) posts.
C20_ExactlyMinOfLimitAndPostable ==
    (EndedNormally /\ POST_LIMIT >= 1) =>
        Len(created) = Min({POST_LIMIT,
                            Cardinality({n \in DOMAIN RunList : PostableAtStart(RunList[n])})})

\* C20 (amended): posted counts exactly the calls that returned True, and a
\* run with POST_LIMIT >= 1 and no publishing failure attempts the items of
\* recent followed by backlog in list order until POST_LIMIT posts are
\* made or the list ends; every attempted item is posted unless it
\* has no sample image or its title is already on the site (published before
\* the run or created earlier in it), so the run creates min(POST_LIMIT,
\* number of items found postable at their turn) posts, in list order.
C20_CountsOnlyCreatedPosts ==
    /\ posted = Len(PostedAttempts)
    /\ Len(created) = posted
    /\ \A m \in DOMAIN created : created[m] = MainItems[AttemptedItem(PostedAttempts[m])].title
    /\ (EndedNormally /\ POST_LIMIT >= 1) =>
          /\ \A n \in DOMAIN attempts : AttemptedItem(n) = RunList[n]
          /\ \A n \in DOMAIN attempts :
                attempts[n].ret = "False" =>
                    \/ SampleImages(MainItems[AttemptedItem(n)]) = 0
                    \/ MainItems[AttemptedItem(n)].title \in published
                    \/ \E m \in 1..(n - 1) :
                          /\ attempts[m].ret = "True"
                          /\ MainItems[AttemptedItem(m)].title = MainItems[AttemptedItem(n)].title
          /\ \A n \in DOMAIN attempts :
                attempts[n].ret = "True" => SampleImages(MainItems[AttemptedItem(n)]) > 0
          /\ \/ posted = POST_LIMIT /\ attempts[Len(attempts)].ret = "True"
             \/ posted < POST_LIMIT /\ Len(attempts) = Len(RunList)

\* an item without image was skipped, then the limit of two was reached
\* with one post from recent and one from the backlog
C20_Witness ==
    /\ EndedNormally
    /\ POST_LIMIT = 2
    /\ posted = 2
    /\ Len(attempts) = 3
    /\ attempts[1].ret = "False"
    /\ SampleImages(MainItems[AttemptedItem(1)]) = 0
    /\ attempts[2].list = "recent"
    /\ attempts[3].list = "backlog"
    /\ created = <<"A", "B">>

-----------------------------------------------------------------------------
(* split_recent_and_backlog (lines 432-445): the released items divided    *)
(* into those of the last RECENT_DAYS days and the older ones.             *)

MaxSplitLen == 3

\* "2024-02-29 00:00:00"
D_LeapDay ==
    <<"2", "0", "2", "4", "-", "0", "2", "-", "2", "9", " ", "0", "0", ":", "0", "0", ":", "0", "0">>

\* "2024-12-31 10:00:01"
D_YearEnd ==
    <<"2", "0", "2", "4", "-", "1", "2", "-", "3", "1", " ", "1", "0", ":", "0", "0", ":", "0", "1">>

\* "2023-12-31 23:59:59"
D_LastYear ==
    <<"2", "0", "2", "3", "-", "1", "2", "-", "3", "1", " ", "2", "3", ":", "5", "9", ":", "5", "9">>

\* it["date"] of the items the function can be handed: None when the item
\* has no "date" key, else the string
DatedItems ==
    << Some(D_Now), Some(D_Recent), Some(D_LastYear), Some(D_SeptemberUnpadded),
       Some(D_Future), Some(D_LeapDay), Some(D_YearEnd),
       None, Some(<<>>), Some(D_NoTime) >>

RECURSIVE ListsUpTo(_, _)
ListsUpTo(S, n) ==
    IF n = 0 THEN {<<>>}
    ELSE LET shorter == ListsUpTo(S, n - 1)
         IN  shorter \cup {Append(l, x) : l \in shorter, x \in S}

\* the lists items can be
ItemLists ==
    ListsUpTo(DOMAIN DatedItems, MaxSplitLen)

\* now_jst(): year, month, day, hour, minute, second, microsecond
SplitNows ==
    { <<2024, 11, 21, 12, 0, 0, 0>>,
      <<2025, 1, 1, 10, 0, 0, 500000>>,
      <<2024, 3, 1, 0, 0, 0, 0>> }

\* int(os.environ.get("RECENT_DAYS", "3"))
RecentDaysValues ==
    {0, 1, 3}

\* t - timedelta(days=1)
PrevDay(t) ==
    IF t[3] > 1 THEN [t EXCEPT ![3] = @ - 1]
    ELSE IF t[2] > 1 THEN [t EXCEPT ![2] = @ - 1, ![3] = DaysIn(t[1], t[2] - 1)]
    ELSE [t EXCEPT ![1] = @ - 1, ![2] = 12, ![3] = 31]

\* t - timedelta(days=n)
RECURSIVE MinusDays(_, _)
MinusDays(t, n) ==
    IF n = 0 THEN t ELSE MinusDays(PrevDay(t), n - 1)

\* line 433
boundary ==
    MinusDays(splitNow, RECENT_DAYS)

\* line 437: parse_jst_date(it["date"]) of every item of DatedItems, with the
\* microsecond 0 of a parsed time; None when the expression raises (KeyError
\* for a missing key, ValueError for a string the format does not match)
SplitParsed ==
    [k \in DOMAIN DatedItems |->
        IF DatedItems[k] = None THEN None
        ELSE LET dt == parse_jst_date(DatedItems[k][1])
             IN  IF dt = None THEN None ELSE Some(dt[1] \o <<0>>)]

InitSplit ==
    /\ RECENT_DAYS \in RecentDaysValues
    /\ splitItems \in ItemLists
    /\ splitNow \in SplitNows
    /\ splitPc = "loop"
    /\ splitAt = 0
    /\ splitRecent = <<>>
    /\ splitBacklog = <<>>
    /\ splitBranch = <<>>
    /\ FORCE_DETAIL_DOMAIN = ""
    /\ IdleClean
    /\ IdleUrls
    /\ IdleResolve
    /\ IdleMain
    /\ IdleFetch

splitConfig == <<RECENT_DAYS, splitItems, splitNow, FORCE_DETAIL_DOMAIN, cleanVars, urlVars,
                 resVars, mainVars, fetchVars>>

\* the for loop's it
SplitCurrent ==
    splitItems[splitAt + 1]

\* one iteration of the for loop: the lists after it (the places in items
\* of the items appended so far) and the branch taken
SplitStep(branch, rec, back) ==
    /\ splitAt' = splitAt + 1
    /\ splitBranch' = Append(splitBranch, branch)
    /\ splitRecent' = rec
    /\ splitBacklog' = back
    /\ UNCHANGED <<splitPc, splitConfig>>

SplitExcept_Drops ==
    /\ splitPc = "loop"
    /\ splitAt < Len(splitItems)
    /\ SplitParsed[SplitCurrent] = None
    /\ SplitStep("except", splitRecent, splitBacklog)

\* lines 436-440: the date does not parse
SplitExcept ==
    /\ splitPc = "loop"
    /\ splitAt < Len(splitItems)
    /\ SplitParsed[SplitCurrent] = None
    /\ SplitStep("except", splitRecent, Append(splitBacklog, splitAt + 1))

\* lines 441-442
SplitToRecent ==
    /\ splitPc = "loop"
    /\ splitAt < Len(splitItems)
    /\ SplitParsed[SplitCurrent] # None
    /\ TimeLeq(boundary, SplitParsed[SplitCurrent][1])
    /\ SplitStep("recent", Append(splitRecent, splitAt + 1), splitBacklog)

\* lines 443-444
SplitToBacklog ==
    /\ splitPc = "loop"
    /\ splitAt < Len(splitItems)
    /\ SplitParsed[SplitCurrent] # None
    /\ ~TimeLeq(boundary, SplitParsed[SplitCurrent][1])
    /\ SplitStep("backlog", splitRecent, Append(splitBacklog, splitAt + 1))

\* line 445
SplitReturn ==
    /\ splitPc = "loop"
    /\ splitAt = Len(splitItems)
    /\ splitPc' = "done"
    /\ UNCHANGED <<splitAt, splitRecent, splitBacklog, splitBranch, splitConfig>>

NextSplit ==
    \/ SplitExcept
    \/ SplitToRecent
    \/ SplitToBacklog
    \/ SplitReturn

SpecSplit ==
    InitSplit /\ [][NextSplit]_vars

\* the number of the day y-m-d, counted from 0001-01-01 as day 1
DayNumber(y, m, d) ==
    LET RECURSIVE Before(_)
        Before(j) == IF j = 0 THEN 0 ELSE DaysIn(y, j) + Before(j - 1)
    IN  365 * (y - 1) + ((y - 1) \div 4) - ((y - 1) \div 100) + ((y - 1) \div 400)
        + Before(m - 1) + d

\* the second of the day
SecondOfDay(t) ==
    (t[4] * 60 + t[5]) * 60 + t[6]

\* the item at place k of DatedItems has a date that parses and is not
\* earlier than now minus RECENT_DAYS days
RecentByRule(k) ==
    /\ SplitParsed[k] # None
    /\ LET dt == SplitParsed[k][1]
           day == DayNumber(dt[1], dt[2], dt[3]) + RECENT_DAYS
           today == DayNumber(splitNow[1], splitNow[2], splitNow[3])
       IN  \/ day > today
           \/ day = today /\ SecondOfDay(dt) > SecondOfDay(splitNow)
           \/ day = today /\ SecondOfDay(dt) = SecondOfDay(splitNow) /\ dt[7] >= splitNow[7]

Places(n) ==
    [k \in 1..n |-> k]

\* C21: split_recent_and_backlog partitions its input in order: after every
\* iteration recent holds, in input order, exactly the handled items whose
\* date parses and is not earlier than now minus RECENT_DAYS days, backlog
\* holds, in input order, all the other handled items (a missing or
\* unparseable date included), and the function returns only when every
\* input item has been handled.
C21_SplitPartitionsInOrder ==
    /\ splitRecent = SelectSeq(Places(splitAt), LAMBDA k : RecentByRule(splitItems[k]))
    /\ splitBacklog = SelectSeq(Places(splitAt), LAMBDA k : ~RecentByRule(splitItems[k]))
    /\ splitPc = "done" => splitAt = Len(splitItems)

\* A call that returned after an item without a date went to backlog, an
\* item dated exactly at the boundary went to recent and an item with an
\* earlier date went to backlog.
C21_Witness ==
    /\ splitPc = "done"
    /\ Len(splitItems) = 3
    /\ \E k \in DOMAIN splitBacklog : DatedItems[splitItems[splitBacklog[k]]] = None
    /\ \E k \in DOMAIN splitRecent : SplitParsed[splitItems[splitRecent[k]]] = Some(boundary)
    /\ \E k \in DOMAIN splitBranch : splitBranch[k] = "backlog"
    /\ RECENT_DAYS > 0

====
